---- MODULE Spec2Model ----
(***************************************************************************)
(* Publication queue of TelegaAutoPublishNEWS: the queue store             *)
(* (database.py), the slot allocator (scheduler.py), the ingestion flow    *)
(* and the publish path (telegram_handler.py) and the cron ticks (app.py). *)
(*                                                                         *)
(* Time is civil time counted in ticks of 1/TicksPerHour hour from         *)
(* midnight of day 0.  `now` is the Madrid clock (now_madrid()); the host  *)
(* clock read by datetime.now() is now + hostOffset.                       *)
(* `boot` is the position of run_bot in the startup sequence and `reply`    *)
(* the value last returned to a caller of a scheduler helper.              *)
(***************************************************************************)
EXTENDS Integers, Sequences, FiniteSets, TLC

\* ---------------------------------------------------------------- bounds
MaxId == 2
MaxOps == 1
MaxAlloc == 8
MaxSends == 2
MaxConn == 2
TicksPerHour == 2

\* ------------------------------------------------------ program constants
HorizonDays == 7
MAX_ARTICLES_PER_RUN == 5
NoId == 0
NoTime == 0 - 1

\* ------------------------------------------------------------ input sets
Workers == {"w1", "w2"}
MainWorkers == {"w1"}
TickFlow == "tick"
OpFlow == "op"
Flows == Workers \cup {TickFlow, OpFlow}

Urls == {"a", "b", "u"}
Batches == {<<"a", "b">>, <<"u", "a">>}
\* the title and the body of the article behind a URL, as sequences of characters
Article(url) ==
    CASE url = "u" -> [title |-> <<"B", "R", "E", "A", "K", "I", "N", "G">>,
                       text |-> <<"r", "a", "i", "n">>]
      [] url = "k1" -> [title |-> <<"A">>, text |-> <<"b">>]
      [] url = "k2" -> [title |-> <<"B">>, text |-> <<"a", "B">>]
      [] url = "k3" -> [title |-> <<"n">>, text |-> <<"e">>]
      [] OTHER -> [title |-> <<"n", "e", "w", "s">>, text |-> <<"r", "a", "i", "n">>]

\* article_data.get('title', '') + ' ' + article_data.get('text', '')
ArticleText(url) == Article(url).title \o <<" ">> \o Article(url).text
HostOffsets == {0, 0 - TicksPerHour}
Ids == 1..MaxId

VARIABLES now, hostOffset, PUBLISH_SCHEDULE, URGENT_KEYWORDS, jobHours,
          news_queue, nextId, worker, pub, sent, marks, lastTick, opCount,
          boot, reply, urgent_keywords, config_table, CHECK_INTERVAL,
          connection_pool, deepseek, request

vars == <<now, hostOffset, PUBLISH_SCHEDULE, URGENT_KEYWORDS, jobHours,
          news_queue, nextId, worker, pub, sent, marks, lastTick, opCount,
          boot, reply, urgent_keywords, config_table, CHECK_INTERVAL,
          connection_pool, deepseek, request>>

\* ------------------------------------------------------------------ time
Hour(t) == (t \div TicksPerHour) % 24
Date(t) == t \div (24 * TicksPerHour)
Combine(date, hour) == (date * 24 + hour) * TicksPerHour
HostNow == now + hostOffset
OnTheHour(t) == t % TicksPerHour = 0
StartTime == Combine(0, 9)
ClockInstants == {Combine(0, 12), Combine(0, 16)}

\* ---------------------------------------------------------------- config
get_publish_hours == PUBLISH_SCHEDULE

\* ------------------------------------------------------------------ text
UpperCase == <<"A", "B", "E", "G", "I", "K", "N", "R">>
LowerCase == <<"a", "b", "e", "g", "i", "k", "n", "r">>

lower_char(c) ==
    IF \E i \in 1..Len(UpperCase) : UpperCase[i] = c
    THEN LowerCase[CHOOSE i \in 1..Len(UpperCase) : UpperCase[i] = c]
    ELSE c

\* str.lower()
lower(s) == [i \in 1..Len(s) |-> lower_char(s[i])]

\* str.strip()
RECURSIVE strip(_)
strip(s) ==
    IF s = <<>> THEN s
    ELSE IF Head(s) = " " THEN strip(Tail(s))
    ELSE IF s[Len(s)] = " " THEN strip(SubSeq(s, 1, Len(s) - 1))
    ELSE s

\* str.split(sep)
RECURSIVE split(_, _)
split(s, sep) ==
    IF \A i \in 1..Len(s) : s[i] # sep THEN <<s>>
    ELSE LET k == CHOOSE i \in 1..Len(s) :
                      s[i] = sep /\ \A j \in 1..(i - 1) : s[j] # sep
         IN  <<SubSeq(s, 1, k - 1)>> \o split(SubSeq(s, k + 1, Len(s)), sep)

\* `needle in haystack` on two strings
Contains(haystack, needle) ==
    \E i \in 0..(Len(haystack) - Len(needle)) :
        SubSeq(haystack, i + 1, i + Len(needle)) = needle

DigitChars == <<"0", "1", "2", "3", "4", "5", "6", "7", "8", "9">>
IsDigit(c) == \E i \in 1..Len(DigitChars) : DigitChars[i] = c
DigitValue(c) == (CHOOSE i \in 1..Len(DigitChars) : DigitChars[i] = c) - 1

\* int(value) raises ValueError on a text that is not a number
IntRaises(s) == s = <<>> \/ \E i \in 1..Len(s) : ~IsDigit(s[i])

\* int(value)
RECURSIVE int(_)
int(s) ==
    IF Len(s) = 1 THEN DigitValue(s[1])
    ELSE 10 * int(SubSeq(s, 1, Len(s) - 1)) + DigitValue(s[Len(s)])

\* URGENT_KEYWORDS = os.getenv('URGENT_KEYWORDS', 'молния,breaking')
DefaultKeywords == <<"b", "r", "e", "a", "k", "i", "n", "g">>
\* CHECK_INTERVAL = int(os.getenv('CHECK_INTERVAL', 60))
DefaultInterval == 60
\* ARTICLE_STYLE = os.getenv('ARTICLE_STYLE', 'informative')
ARTICLE_STYLE == "informative"
\* ADMIN_USER_ID = os.getenv('ADMIN_USER_ID')
ADMIN_USER_ID == "admin"

\* a key without a row in the config table
NoValue == <<>>
ConfigKeys == {"URGENT_KEYWORDS", "CHECK_INTERVAL", "TEXT_LENGTH"}
EmptyTable == [key \in ConfigKeys |-> NoValue]

\* [kw.strip().lower() for kw in cls.URGENT_KEYWORDS.split(',')]
get_urgent_keywords ==
    LET parts == split(URGENT_KEYWORDS, ",")
    IN  [i \in 1..Len(parts) |-> lower(strip(parts[i]))]

NoStyle == ""
\* the DeepSeek client of the handler: self.style, the local original_style of
\* a rewrite_article call in progress, and the style of the last prompt
\* _create_prompt built for process_article
IdleClient == [style |-> ARTICLE_STYLE, original_style |-> NoStyle,
               prompt_style |-> NoStyle]

\* no operator request is being handled
NoRequest == [pc |-> "none", user |-> "", via |-> "", action |-> ""]

RECURSIVE Insert(_, _)
Insert(h, s) ==
    IF s = <<>> THEN <<h>>
    ELSE IF h <= Head(s) THEN <<h>> \o s
    ELSE <<Head(s)>> \o Insert(h, Tail(s))

RECURSIVE sorted(_)
sorted(s) == IF s = <<>> THEN <<>> ELSE Insert(Head(s), sorted(Tail(s)))

\* ------------------------------------------------------------- the store
Pending(q) == {id \in DOMAIN q : q[id].status = "pending"}
UrlExists(q, url) == \E id \in DOMAIN q : q[id].url = url

\* a row of news_queue; horizon_full is history (was every candidate slot taken
\* when the slot was assigned), not a column
Row(url, scheduled_time, is_urgent, horizon_full) ==
    [url |-> url, scheduled_time |-> scheduled_time, status |-> "pending",
     is_urgent |-> is_urgent, published_at |-> NoTime, horizon_full |-> horizon_full,
     processed_text |-> "processed"]

add_news_no_unique(q, id, row) ==
    [i \in DOMAIN q \cup {id} |-> IF i = id THEN row ELSE q[i]]

\* INSERT ... RETURNING id under the UNIQUE constraint on url
add_news(q, id, row) ==
    IF UrlExists(q, row.url) THEN q
    ELSE [i \in DOMAIN q \cup {id} |-> IF i = id THEN row ELSE q[i]]

get_next_slot_news_count(q, slot_time) ==
    Cardinality({id \in Pending(q) : q[id].scheduled_time = slot_time})

mark_as_published(q, id, t) ==
    [i \in DOMAIN q |->
        IF i = id THEN [q[i] EXCEPT !.status = "published", !.published_at = t] ELSE q[i]]

mark_as_failed_every_record(q, id) ==
    [i \in DOMAIN q |-> [q[i] EXCEPT !.status = "failed"]]

mark_as_failed(q, id) ==
    [i \in DOMAIN q |-> IF i = id THEN [q[i] EXCEPT !.status = "failed"] ELSE q[i]]

delete_news(q, id) == [i \in DOMAIN q \ {id} |-> q[i]]

clear_queue_not_published(q) ==
    [i \in {j \in DOMAIN q : q[j].status = "published"} |-> q[i]]

\* DELETE FROM news_queue WHERE status = 'pending'
clear_queue(q) == [i \in DOMAIN q \ Pending(q) |-> q[i]]

get_news_by_id(q, id) == IF id \in DOMAIN q THEN {id} ELSE {}

\* --------------------------------------------------------- the allocator
DaySlots_off_the_hour(date, hours) ==
    [i \in 1..Len(hours) |-> Combine(date, hours[i]) + 1]

\* datetime.combine(date, datetime.min.time().replace(hour=hour))
DaySlots(date, hours) == [i \in 1..Len(hours) |-> Combine(date, hours[i])]

RECURSIVE NextDays(_, _, _, _)
NextDays(date, from, to, hours) ==
    IF from > to THEN <<>>
    ELSE DaySlots(date + from, hours) \o NextDays(date, from + 1, to, hours)

IsLaterHour(t, h) == h > Hour(t)

available_slots(t, hours) ==
    LET today == SelectSeq(sorted(hours), LAMBDA h : IsLaterHour(t, h))
    IN  DaySlots(Date(t), today) \o NextDays(Date(t), 1, HorizonDays, sorted(hours))

AllOccupied(q, slots) ==
    \A i \in 1..Len(slots) : get_next_slot_news_count(q, slots[i]) > 0

FirstFree_last_free(q, slots) ==
    LET free == {i \in 1..Len(slots) : get_next_slot_news_count(q, slots[i]) = 0}
    IN  IF free = {} THEN slots[Len(slots)]
        ELSE slots[CHOOSE i \in free : \A j \in free : i >= j]

FirstFree_wraps_around(q, slots) ==
    LET free == {i \in 1..Len(slots) : get_next_slot_news_count(q, slots[i]) = 0}
    IN  IF free = {} THEN slots[1]
        ELSE slots[CHOOSE i \in free : \A j \in free : i <= j]

\* the loop over available_slots with db.get_next_slot_news_count, and the
\* fall-through to available_slots[-1]
FirstFree(q, slots) ==
    LET free == {i \in 1..Len(slots) : get_next_slot_news_count(q, slots[i]) = 0}
    IN  IF free = {} THEN slots[Len(slots)]
        ELSE slots[CHOOSE i \in free : \A j \in free : i <= j]

get_next_available_slot_urgent_queued(is_urgent, db, t, q, hours) ==
    LET slots == available_slots(t, hours)
    IN  IF db THEN FirstFree(q, slots)
        ELSE IF slots # <<>> THEN slots[1] ELSE t

get_next_available_slot(is_urgent, db, t, q, hours) ==
    IF is_urgent THEN t
    ELSE LET slots == available_slots(t, hours)
         IN  IF db THEN FirstFree(q, slots)
             ELSE IF slots # <<>> THEN slots[1] ELSE t

\* ------------------------------------------------------- the due query
IsDue_ignores_time(q, id, t) == q[id].status = "pending"

IsDue_retries_failed(q, id, t) ==
    q[id].status # "published" /\ q[id].scheduled_time <= t

IsDue_only_at_its_instant(q, id, t) ==
    q[id].status = "pending" /\ q[id].scheduled_time = t

\* WHERE status = 'pending' AND scheduled_time <= %s
IsDue(q, id, t) == q[id].status = "pending" /\ q[id].scheduled_time <= t

Precedes_by_time_only(q, a, b) == q[a].scheduled_time < q[b].scheduled_time

\* ORDER BY is_urgent DESC, scheduled_time ASC
Precedes(q, a, b) ==
    \/ q[a].is_urgent /\ ~q[b].is_urgent
    \/ q[a].is_urgent = q[b].is_urgent /\ q[a].scheduled_time < q[b].scheduled_time

RECURSIVE OrderedPrefixes(_, _, _)
OrderedPrefixes(q, S, k) ==
    IF k <= 0 \/ S = {} THEN {<<>>}
    ELSE UNION {{<<m>> \o s : s \in OrderedPrefixes(q, S \ {m}, k - 1)} :
                m \in {x \in S : \A y \in S : ~Precedes(q, y, x)}}

get_news_for_publication(q, t, limit) ==
    OrderedPrefixes(q, {id \in DOMAIN q : IsDue(q, id, t)}, limit)

\* ------------------------------------------------------------ ingestion
is_urgent_news_case_sensitive(text, keywords) ==
    \E i \in 1..Len(keywords) : Contains(text, keywords[i])

\* text_lower = text.lower(); any keyword `in` text_lower
is_urgent_news(text, keywords) ==
    LET text_lower == lower(text)
    IN  \E i \in 1..Len(keywords) : Contains(text_lower, keywords[i])

Take_everything(s, n) == s

\* urls[:n]
Take(s, n) == SubSeq(s, 1, IF Len(s) < n THEN Len(s) ELSE n)

IdleWorker == [pc |-> "idle", urls |-> <<>>, is_urgent |-> FALSE,
               scheduled_time |-> NoTime, horizon_full |-> FALSE, news_id |-> NoId]
NoReply == [op |-> "", value |-> NoTime]
IdlePub == [pc |-> "idle", id |-> NoId, tried |-> FALSE]

Bump(counter, id) ==
    [counter EXCEPT ![id] = IF @ < MaxSends THEN @ + 1 ELSE @]

\* `continue` / end of the loop body of _process_urls
NextUrl(w) ==
    IF Len(worker[w].urls) > 1
    THEN [IdleWorker EXCEPT !.pc = "prepare", !.urls = Tail(worker[w].urls)]
    ELSE IdleWorker

Init ==
    /\ now = StartTime
    /\ hostOffset = 0
    /\ PUBLISH_SCHEDULE = <<8, 12, 16, 20>>
    /\ URGENT_KEYWORDS = DefaultKeywords
    /\ urgent_keywords = get_urgent_keywords
    /\ config_table = EmptyTable
    /\ CHECK_INTERVAL = DefaultInterval
    /\ connection_pool = {}
    /\ deepseek = IdleClient
    /\ request = NoRequest
    /\ jobHours = {8, 12, 16, 20}
    /\ news_queue = <<>>
    /\ nextId = 1
    /\ worker = [w \in Workers |-> IdleWorker]
    /\ pub = [f \in Flows |-> IdlePub]
    /\ sent = [id \in Ids |-> 0]
    /\ marks = [id \in Ids |-> 0]
    /\ lastTick = NoTime
    /\ opCount = 0
    /\ boot = "running"
    /\ reply = NoReply

AdvanceClock ==
    /\ \E t \in ClockInstants : t > now /\ now' = t
    /\ UNCHANGED <<hostOffset, PUBLISH_SCHEDULE, URGENT_KEYWORDS, jobHours,
                   news_queue, nextId, worker, pub, sent, marks, lastTick, opCount,
                   boot, reply,
                   urgent_keywords, config_table, CHECK_INTERVAL, connection_pool,
                   deepseek, request>>

\* _handle_channel_message: a thread is started on the URLs of one message
StartBatch(w) ==
    /\ worker[w].pc = "idle"
    /\ nextId <= MaxId
    /\ \E batch \in Batches :
         worker' = [worker EXCEPT ![w] =
                      [IdleWorker EXCEPT !.pc = "prepare",
                                         !.urls = Take(batch, MAX_ARTICLES_PER_RUN)]]
    /\ UNCHANGED <<now, hostOffset, PUBLISH_SCHEDULE, URGENT_KEYWORDS, jobHours,
                   news_queue, nextId, pub, sent, marks, lastTick, opCount,
                   boot, reply,
                   urgent_keywords, config_table, CHECK_INTERVAL, connection_pool,
                   deepseek, request>>

PrepareFails_aborts(w) ==
    /\ worker[w].pc = "prepare"
    /\ worker' = [worker EXCEPT ![w] = IdleWorker]
    /\ UNCHANGED <<now, hostOffset, PUBLISH_SCHEDULE, URGENT_KEYWORDS, jobHours,
                   news_queue, nextId, pub, sent, marks, lastTick, opCount,
                   boot, reply,
                   urgent_keywords, config_table, CHECK_INTERVAL, connection_pool,
                   deepseek, request>>

\* parse, validate, classify, rewrite: a failure skips the URL
PrepareFails(w) ==
    /\ worker[w].pc = "prepare"
    /\ worker' = [worker EXCEPT ![w] = NextUrl(w)]
    /\ UNCHANGED <<now, hostOffset, PUBLISH_SCHEDULE, URGENT_KEYWORDS, jobHours,
                   news_queue, nextId, pub, sent, marks, lastTick, opCount,
                   boot, reply,
                   urgent_keywords, config_table, CHECK_INTERVAL, connection_pool,
                   deepseek, request>>

\* parse, validate, classify, rewrite, then the allocator is asked for a slot
Prepare(w) ==
    /\ worker[w].pc = "prepare"
    /\ LET url == Head(worker[w].urls)
           is_urgent == is_urgent_news(ArticleText(url), urgent_keywords)
       IN  worker' = [worker EXCEPT ![w] =
                [@ EXCEPT !.pc = "add", !.is_urgent = is_urgent,
                          !.scheduled_time =
                              get_next_available_slot(is_urgent, FALSE, now,
                                                      news_queue, get_publish_hours),
                          !.horizon_full =
                              ~is_urgent /\ AllOccupied(news_queue,
                                               available_slots(now, get_publish_hours))]]
    \* process_article: _create_prompt builds the prompt with self.style
    /\ deepseek' = [deepseek EXCEPT !.prompt_style = deepseek.style]
    /\ UNCHANGED <<now, hostOffset, PUBLISH_SCHEDULE, URGENT_KEYWORDS, jobHours,
                   news_queue, nextId, pub, sent, marks, lastTick, opCount,
                   boot, reply,
                   urgent_keywords, config_table, CHECK_INTERVAL, connection_pool,
                   request>>

\* add_news answers None: the store cannot be reached
AddNewsFails(w) ==
    /\ worker[w].pc = "add"
    /\ worker' = [worker EXCEPT ![w].pc = "added", ![w].news_id = NoId]
    /\ UNCHANGED <<now, hostOffset, PUBLISH_SCHEDULE, URGENT_KEYWORDS, jobHours,
                   news_queue, nextId, pub, sent, marks, lastTick, opCount,
                   boot, reply,
                   urgent_keywords, config_table, CHECK_INTERVAL, connection_pool,
                   deepseek, request>>

\* news_id = self.db.add_news(...)
AddNews(w) ==
    /\ worker[w].pc = "add"
    /\ LET row == Row(Head(worker[w].urls), worker[w].scheduled_time,
                      worker[w].is_urgent, worker[w].horizon_full)
           q == add_news(news_queue, nextId, row)
           news_id == IF nextId \in DOMAIN q THEN nextId ELSE NoId
       IN  /\ news_id = NoId \/ nextId <= MaxId
           /\ news_queue' = q
           /\ nextId' = IF news_id # NoId THEN nextId + 1 ELSE nextId
           /\ worker' = [worker EXCEPT ![w].pc = "added", ![w].news_id = news_id]
    /\ UNCHANGED <<now, hostOffset, PUBLISH_SCHEDULE, URGENT_KEYWORDS, jobHours,
                   pub, sent, marks, lastTick, opCount,
                   boot, reply,
                   urgent_keywords, config_table, CHECK_INTERVAL, connection_pool,
                   deepseek, request>>

AfterAdd_publishes_any_urgent(w) ==
    /\ worker[w].pc = "added"
    /\ IF worker[w].is_urgent
       THEN /\ worker' = [worker EXCEPT ![w].pc = "publish"]
            /\ pub' = [pub EXCEPT ![w] = [pc |-> "read", id |-> worker[w].news_id,
                                          tried |-> FALSE]]
       ELSE /\ worker' = [worker EXCEPT ![w] = NextUrl(w)]
            /\ pub' = pub
    /\ UNCHANGED <<now, hostOffset, PUBLISH_SCHEDULE, URGENT_KEYWORDS, jobHours,
                   news_queue, nextId, sent, marks, lastTick, opCount,
                   boot, reply,
                   urgent_keywords, config_table, CHECK_INTERVAL, connection_pool,
                   deepseek, request>>

\* `if news_id:` an urgent article is published at once, inside the loop body
AfterAdd(w) ==
    /\ worker[w].pc = "added"
    /\ IF worker[w].news_id # NoId /\ worker[w].is_urgent
       THEN /\ worker' = [worker EXCEPT ![w].pc = "publish"]
            /\ pub' = [pub EXCEPT ![w] = [pc |-> "read", id |-> worker[w].news_id,
                                          tried |-> FALSE]]
       ELSE /\ worker' = [worker EXCEPT ![w] = NextUrl(w)]
            /\ pub' = pub
    /\ UNCHANGED <<now, hostOffset, PUBLISH_SCHEDULE, URGENT_KEYWORDS, jobHours,
                   news_queue, nextId, sent, marks, lastTick, opCount,
                   boot, reply,
                   urgent_keywords, config_table, CHECK_INTERVAL, connection_pool,
                   deepseek, request>>

\* ----------------------------------------------------- publish_news_by_id
\* `return` of publish_news_by_id: an ingestion goes on with its next URL
PubReturn(f) ==
    /\ pub' = [pub EXCEPT ![f] = IdlePub]
    /\ IF f \in Workers
       THEN worker' = [worker EXCEPT ![f] = NextUrl(f)]
       ELSE worker' = worker

\* get_news_by_id raises: the except branch is taken
PubReadFails(f) ==
    /\ pub[f].pc = "read"
    /\ pub' = [pub EXCEPT ![f].pc = "fail"]
    /\ UNCHANGED <<now, hostOffset, PUBLISH_SCHEDULE, URGENT_KEYWORDS, jobHours,
                   news_queue, nextId, worker, sent, marks, lastTick, opCount,
                   boot, reply,
                   urgent_keywords, config_table, CHECK_INTERVAL, connection_pool,
                   deepseek, request>>

PubRead(f) ==
    /\ pub[f].pc = "read"
    /\ IF get_news_by_id(news_queue, pub[f].id) = {}
       THEN PubReturn(f)
       ELSE pub' = [pub EXCEPT ![f].pc = "send"] /\ worker' = worker
    /\ UNCHANGED <<now, hostOffset, PUBLISH_SCHEDULE, URGENT_KEYWORDS, jobHours,
                   news_queue, nextId, sent, marks, lastTick, opCount,
                   boot, reply,
                   urgent_keywords, config_table, CHECK_INTERVAL, connection_pool,
                   deepseek, request>>

\* bot.send_message delivers the message
PubSend(f) ==
    /\ pub[f].pc = "send"
    /\ pub' = [pub EXCEPT ![f].pc = "mark", ![f].tried = TRUE]
    /\ sent' = Bump(sent, pub[f].id)
    /\ UNCHANGED <<now, hostOffset, PUBLISH_SCHEDULE, URGENT_KEYWORDS, jobHours,
                   news_queue, nextId, worker, marks, lastTick, opCount,
                   boot, reply,
                   urgent_keywords, config_table, CHECK_INTERVAL, connection_pool,
                   deepseek, request>>

\* bot.send_message raises
PubSendFails(f) ==
    /\ pub[f].pc = "send"
    /\ pub' = [pub EXCEPT ![f].pc = "fail", ![f].tried = TRUE]
    /\ UNCHANGED <<now, hostOffset, PUBLISH_SCHEDULE, URGENT_KEYWORDS, jobHours,
                   news_queue, nextId, worker, sent, marks, lastTick, opCount,
                   boot, reply,
                   urgent_keywords, config_table, CHECK_INTERVAL, connection_pool,
                   deepseek, request>>

\* mark_as_published, then return True
PubMark(f) ==
    /\ pub[f].pc = "mark"
    /\ news_queue' = mark_as_published(news_queue, pub[f].id, HostNow)
    /\ marks' = Bump(marks, pub[f].id)
    /\ PubReturn(f)
    /\ UNCHANGED <<now, hostOffset, PUBLISH_SCHEDULE, URGENT_KEYWORDS, jobHours,
                   nextId, sent, lastTick, opCount,
                   boot, reply,
                   urgent_keywords, config_table, CHECK_INTERVAL, connection_pool,
                   deepseek, request>>

\* mark_as_published cannot reach the store and answers False; return True
PubMarkFails(f) ==
    /\ pub[f].pc = "mark"
    /\ marks' = Bump(marks, pub[f].id)
    /\ PubReturn(f)
    /\ UNCHANGED <<now, hostOffset, PUBLISH_SCHEDULE, URGENT_KEYWORDS, jobHours,
                   news_queue, nextId, sent, lastTick, opCount,
                   boot, reply,
                   urgent_keywords, config_table, CHECK_INTERVAL, connection_pool,
                   deepseek, request>>

\* the except branch: mark_as_failed, then return False
PubFail(f) ==
    /\ pub[f].pc = "fail"
    /\ news_queue' = mark_as_failed(news_queue, pub[f].id)
    /\ PubReturn(f)
    /\ UNCHANGED <<now, hostOffset, PUBLISH_SCHEDULE, URGENT_KEYWORDS, jobHours,
                   nextId, sent, marks, lastTick, opCount,
                   boot, reply,
                   urgent_keywords, config_table, CHECK_INTERVAL, connection_pool,
                   deepseek, request>>

PubFailFails_propagates(f) ==
    /\ pub[f].pc = "fail"
    /\ pub' = [pub EXCEPT ![f].pc = "crashed"]
    /\ UNCHANGED <<now, hostOffset, PUBLISH_SCHEDULE, URGENT_KEYWORDS, jobHours,
                   news_queue, nextId, worker, sent, marks, lastTick, opCount,
                   boot, reply,
                   urgent_keywords, config_table, CHECK_INTERVAL, connection_pool,
                   deepseek, request>>

\* the except branch when mark_as_failed cannot reach the store either
PubFailFails(f) ==
    /\ pub[f].pc = "fail"
    /\ PubReturn(f)
    /\ UNCHANGED <<now, hostOffset, PUBLISH_SCHEDULE, URGENT_KEYWORDS, jobHours,
                   news_queue, nextId, sent, marks, lastTick, opCount,
                   boot, reply,
                   urgent_keywords, config_table, CHECK_INTERVAL, connection_pool,
                   deepseek, request>>

\* ------------------------------------------------------ the dispatcher tick
\* publish_news_job fired by the cron trigger of one registered hour
publish_scheduled_news ==
    /\ pub[TickFlow].pc = "idle"
    /\ Hour(HostNow) \in jobHours
    /\ OnTheHour(HostNow)
    /\ lastTick # HostNow
    /\ lastTick' = HostNow
    /\ \E news_list \in get_news_for_publication(news_queue, HostNow, 1) :
         IF news_list = <<>>
         THEN pub' = pub
         ELSE pub' = [pub EXCEPT ![TickFlow] =
                        [pc |-> "read", id |-> news_list[1], tried |-> FALSE]]
    /\ UNCHANGED <<now, hostOffset, PUBLISH_SCHEDULE, URGENT_KEYWORDS, jobHours,
                   news_queue, nextId, worker, sent, marks, opCount,
                   boot, reply,
                   urgent_keywords, config_table, CHECK_INTERVAL, connection_pool,
                   deepseek, request>>

\* get_news_for_publication raises: publish_scheduled_news logs and returns
publish_scheduled_news_down ==
    /\ pub[TickFlow].pc = "idle"
    /\ Hour(HostNow) \in jobHours
    /\ OnTheHour(HostNow)
    /\ lastTick # HostNow
    /\ lastTick' = HostNow
    /\ UNCHANGED <<now, hostOffset, PUBLISH_SCHEDULE, URGENT_KEYWORDS, jobHours,
                   news_queue, nextId, worker, pub, sent, marks, opCount,
                   boot, reply,
                   urgent_keywords, config_table, CHECK_INTERVAL, connection_pool,
                   deepseek, request>>

\* ------------------------------------------------------------ the operator
execute_publish(id) ==
    /\ pub[OpFlow].pc = "idle"
    /\ opCount < MaxOps
    /\ opCount' = opCount + 1
    /\ pub' = [pub EXCEPT ![OpFlow] = [pc |-> "read", id |-> id, tried |-> FALSE]]
    /\ UNCHANGED <<now, hostOffset, PUBLISH_SCHEDULE, URGENT_KEYWORDS, jobHours,
                   news_queue, nextId, worker, sent, marks, lastTick,
                   boot, reply,
                   urgent_keywords, config_table, CHECK_INTERVAL, connection_pool,
                   deepseek, request>>

execute_delete(id) ==
    /\ id \in DOMAIN news_queue
    /\ opCount < MaxOps
    /\ opCount' = opCount + 1
    /\ news_queue' = delete_news(news_queue, id)
    /\ UNCHANGED <<now, hostOffset, PUBLISH_SCHEDULE, URGENT_KEYWORDS, jobHours,
                   nextId, worker, pub, sent, marks, lastTick,
                   boot, reply,
                   urgent_keywords, config_table, CHECK_INTERVAL, connection_pool,
                   deepseek, request>>

execute_clear_queue ==
    /\ Pending(news_queue) # {}
    /\ opCount < MaxOps
    /\ opCount' = opCount + 1
    /\ news_queue' = clear_queue(news_queue)
    /\ UNCHANGED <<now, hostOffset, PUBLISH_SCHEDULE, URGENT_KEYWORDS, jobHours,
                   nextId, worker, pub, sent, marks, lastTick,
                   boot, reply,
                   urgent_keywords, config_table, CHECK_INTERVAL, connection_pool,
                   deepseek, request>>

\* ------------------------------------------------------ retention sweep
RETENTION_DAYS == 7
CLEANUP_HOUR == 3
RetentionInstants == {Combine(3, CLEANUP_HOUR), Combine(8, CLEANUP_HOUR)}

\* days pass
AdvanceDays ==
    /\ \E t \in RetentionInstants : t > now /\ now' = t
    /\ UNCHANGED <<hostOffset, PUBLISH_SCHEDULE, URGENT_KEYWORDS, jobHours,
                   news_queue, nextId, worker, pub, sent, marks, lastTick, opCount,
                   boot, reply,
                   urgent_keywords, config_table, CHECK_INTERVAL, connection_pool,
                   deepseek, request>>

\* the sweep of the store: published records older than the window are deleted
delete_old_published_news(q, t, days) ==
    LET cutoff == t - days * 24 * TicksPerHour
        old == {id \in DOMAIN q : /\ q[id].status = "published"
                                  /\ q[id].published_at < cutoff}
    IN  [id \in DOMAIN q \ old |-> q[id]]

cleanup_old_news_job_one_day ==
    /\ Hour(HostNow) = CLEANUP_HOUR
    /\ OnTheHour(HostNow)
    /\ news_queue' = delete_old_published_news(news_queue, HostNow, 1)
    /\ UNCHANGED <<now, hostOffset, PUBLISH_SCHEDULE, URGENT_KEYWORDS, jobHours,
                   nextId, worker, pub, sent, marks, lastTick, opCount,
                   boot, reply,
                   urgent_keywords, config_table, CHECK_INTERVAL, connection_pool,
                   deepseek, request>>

\* cron job at 03:00: database.delete_old_published_news(days=7)
cleanup_old_news_job ==
    /\ Hour(HostNow) = CLEANUP_HOUR
    /\ OnTheHour(HostNow)
    /\ news_queue' = delete_old_published_news(news_queue, HostNow, RETENTION_DAYS)
    /\ UNCHANGED <<now, hostOffset, PUBLISH_SCHEDULE, URGENT_KEYWORDS, jobHours,
                   nextId, worker, pub, sent, marks, lastTick, opCount,
                   boot, reply,
                   urgent_keywords, config_table, CHECK_INTERVAL, connection_pool,
                   deepseek, request>>

\* ------------------------------------------------- /set_config at runtime
ConfigSchedules == {<<8, 12, 16, 20>>, <<9, 13>>}

\* Config.update_config('PUBLISH_SCHEDULE', value) after the store accepted it
update_config_PUBLISH_SCHEDULE(value) ==
    /\ opCount < MaxOps
    /\ opCount' = opCount + 1
    /\ value # PUBLISH_SCHEDULE
    /\ PUBLISH_SCHEDULE' = value
    /\ UNCHANGED <<now, hostOffset, URGENT_KEYWORDS, jobHours, news_queue, nextId,
                   worker, pub, sent, marks, lastTick,
                   boot, reply,
                   urgent_keywords, config_table, CHECK_INTERVAL, connection_pool,
                   deepseek, request>>

\* ------------------------------------- the allocator called with a store
AllocUrls == <<"s1", "s2", "s3", "s4", "s5", "s6", "s7", "s8", "s9", "s10">>
AllocSchedules == {<<8>>, <<20, 8>>}

InitAlloc ==
    /\ now = StartTime
    /\ hostOffset = 0
    /\ PUBLISH_SCHEDULE \in AllocSchedules
    /\ URGENT_KEYWORDS = DefaultKeywords
    /\ urgent_keywords = get_urgent_keywords
    /\ config_table = EmptyTable
    /\ CHECK_INTERVAL = DefaultInterval
    /\ connection_pool = {}
    /\ deepseek = IdleClient
    /\ request = NoRequest
    /\ jobHours = {}
    /\ news_queue = <<>>
    /\ nextId = 1
    /\ worker = [w \in Workers |-> IdleWorker]
    /\ pub = [f \in Flows |-> IdlePub]
    /\ sent = [id \in Ids |-> 0]
    /\ marks = [id \in Ids |-> 0]
    /\ lastTick = NoTime
    /\ opCount = 0
    /\ boot = "running"
    /\ reply = NoReply

\* one article is handed to a caller of the allocator
StartOne(w) ==
    /\ worker[w].pc = "idle"
    /\ nextId <= MaxAlloc
    /\ nextId <= Len(AllocUrls)
    /\ worker' = [worker EXCEPT ![w] =
                    [IdleWorker EXCEPT !.pc = "prepare",
                                       !.urls = <<AllocUrls[nextId]>>]]
    /\ UNCHANGED <<now, hostOffset, PUBLISH_SCHEDULE, URGENT_KEYWORDS, jobHours,
                   news_queue, nextId, pub, sent, marks, lastTick, opCount,
                   boot, reply,
                   urgent_keywords, config_table, CHECK_INTERVAL, connection_pool,
                   deepseek, request>>

\* get_next_available_slot(is_urgent, db) with db given: the occupancy loop
PrepareWithStore(w) ==
    /\ worker[w].pc = "prepare"
    /\ LET url == Head(worker[w].urls)
           is_urgent == is_urgent_news(ArticleText(url), urgent_keywords)
       IN  worker' = [worker EXCEPT ![w] =
                [@ EXCEPT !.pc = "add", !.is_urgent = is_urgent,
                          !.scheduled_time =
                              get_next_available_slot(is_urgent, TRUE, now,
                                                      news_queue, get_publish_hours),
                          !.horizon_full =
                              ~is_urgent /\ AllOccupied(news_queue,
                                               available_slots(now, get_publish_hours))]]
    \* process_article: _create_prompt builds the prompt with self.style
    /\ deepseek' = [deepseek EXCEPT !.prompt_style = deepseek.style]
    /\ UNCHANGED <<now, hostOffset, PUBLISH_SCHEDULE, URGENT_KEYWORDS, jobHours,
                   news_queue, nextId, pub, sent, marks, lastTick, opCount,
                   boot, reply,
                   urgent_keywords, config_table, CHECK_INTERVAL, connection_pool,
                   request>>

\* db.get_next_slot_news_count cannot reach the store: _get_connection re-raises
\* and neither it nor the allocator catches, so the call raises
PrepareWithStoreRaises(w) ==
    /\ worker[w].pc = "prepare"
    /\ worker' = [worker EXCEPT ![w].pc = "raised"]
    /\ UNCHANGED <<now, hostOffset, PUBLISH_SCHEDULE, URGENT_KEYWORDS, jobHours,
                   news_queue, nextId, pub, sent, marks, lastTick, opCount,
                   boot, reply,
                   urgent_keywords, config_table, CHECK_INTERVAL, connection_pool,
                   deepseek, request>>

\* the caller's `except Exception` takes the raised error; the URL is dropped
AllocRaised(w) ==
    /\ worker[w].pc = "raised"
    /\ worker' = [worker EXCEPT ![w] = NextUrl(w)]
    /\ UNCHANGED <<now, hostOffset, PUBLISH_SCHEDULE, URGENT_KEYWORDS, jobHours,
                   news_queue, nextId, pub, sent, marks, lastTick, opCount,
                   boot, reply,
                   urgent_keywords, config_table, CHECK_INTERVAL, connection_pool,
                   deepseek, request>>

AddOne_allocates_on_insert(w) ==
    /\ worker[w].pc = "add"
    /\ LET row == Row(Head(worker[w].urls),
                      get_next_available_slot(worker[w].is_urgent, TRUE, now,
                                              news_queue, get_publish_hours),
                      worker[w].is_urgent, worker[w].horizon_full)
       IN  /\ news_queue' = add_news(news_queue, nextId, row)
           /\ nextId' = nextId + 1
           /\ worker' = [worker EXCEPT ![w] = IdleWorker]
    /\ UNCHANGED <<now, hostOffset, PUBLISH_SCHEDULE, URGENT_KEYWORDS, jobHours,
                   pub, sent, marks, lastTick, opCount, boot, reply,
                   urgent_keywords, config_table, CHECK_INTERVAL, connection_pool,
                   deepseek, request>>

\* add_news for a caller of the allocator
AddOne(w) ==
    /\ worker[w].pc = "add"
    /\ LET row == Row(Head(worker[w].urls), worker[w].scheduled_time,
                      worker[w].is_urgent, worker[w].horizon_full)
       IN  /\ news_queue' = add_news(news_queue, nextId, row)
           /\ nextId' = nextId + 1
           /\ worker' = [worker EXCEPT ![w] = IdleWorker]
    /\ UNCHANGED <<now, hostOffset, PUBLISH_SCHEDULE, URGENT_KEYWORDS, jobHours,
                   pub, sent, marks, lastTick, opCount,
                   boot, reply,
                   urgent_keywords, config_table, CHECK_INTERVAL, connection_pool,
                   deepseek, request>>

\* ---------------------------------------------------- operator rewrite
RewritePcs == {"rw_read", "rw_generate", "rw_update"}
RewrittenText == "rewritten"

\* UPDATE of the processed_text column of one record, by id
update_processed_text(q, id, text) ==
    [i \in DOMAIN q |-> IF i = id THEN [q[i] EXCEPT !.processed_text = text] ELSE q[i]]

\* a rewrite button is pressed: _execute_rewrite(query, news_id, param)
execute_rewrite(id) ==
    /\ pub[OpFlow].pc = "idle"
    /\ opCount < MaxOps
    /\ opCount' = opCount + 1
    /\ pub' = [pub EXCEPT ![OpFlow] = [pc |-> "rw_read", id |-> id, tried |-> FALSE]]
    /\ UNCHANGED <<now, hostOffset, PUBLISH_SCHEDULE, URGENT_KEYWORDS, jobHours,
                   news_queue, nextId, worker, sent, marks, lastTick, boot, reply,
                   urgent_keywords, config_table, CHECK_INTERVAL, connection_pool,
                   deepseek, request>>

\* news = self.db.get_news_by_id(news_id); `if not news:` answers and returns
RewriteRead ==
    /\ pub[OpFlow].pc = "rw_read"
    /\ pub' = [pub EXCEPT ![OpFlow] =
                 IF get_news_by_id(news_queue, pub[OpFlow].id) = {}
                 THEN IdlePub ELSE [@ EXCEPT !.pc = "rw_generate"]]
    /\ UNCHANGED <<now, hostOffset, PUBLISH_SCHEDULE, URGENT_KEYWORDS, jobHours,
                   news_queue, nextId, worker, sent, marks, lastTick, opCount,
                   boot, reply,
                   urgent_keywords, config_table, CHECK_INTERVAL, connection_pool,
                   deepseek, request>>

\* get_news_by_id raises: the outer except reports the error
RewriteReadFails ==
    /\ pub[OpFlow].pc = "rw_read"
    /\ pub' = [pub EXCEPT ![OpFlow] = IdlePub]
    /\ UNCHANGED <<now, hostOffset, PUBLISH_SCHEDULE, URGENT_KEYWORDS, jobHours,
                   news_queue, nextId, worker, sent, marks, lastTick, opCount,
                   boot, reply,
                   urgent_keywords, config_table, CHECK_INTERVAL, connection_pool,
                   deepseek, request>>

\* rewritten_text = self.deepseek.rewrite_article(...) answers a text
RewriteGenerate ==
    /\ pub[OpFlow].pc = "rw_generate"
    /\ pub' = [pub EXCEPT ![OpFlow].pc = "rw_update"]
    /\ UNCHANGED <<now, hostOffset, PUBLISH_SCHEDULE, URGENT_KEYWORDS, jobHours,
                   news_queue, nextId, worker, sent, marks, lastTick, opCount,
                   boot, reply,
                   urgent_keywords, config_table, CHECK_INTERVAL, connection_pool,
                   deepseek, request>>

RewriteGenerateFails_stores_empty_text ==
    /\ pub[OpFlow].pc = "rw_generate"
    /\ pub' = [pub EXCEPT ![OpFlow] = IdlePub]
    /\ news_queue' = update_processed_text(news_queue, pub[OpFlow].id, "")
    /\ UNCHANGED <<now, hostOffset, PUBLISH_SCHEDULE, URGENT_KEYWORDS, jobHours,
                   nextId, worker, sent, marks, lastTick, opCount, boot, reply,
                   urgent_keywords, config_table, CHECK_INTERVAL, connection_pool,
                   deepseek, request>>

\* rewrite_article answers None or raises: `if rewritten_text:` is false, an
\* error is shown and the store is not called
RewriteGenerateFails ==
    /\ pub[OpFlow].pc = "rw_generate"
    /\ pub' = [pub EXCEPT ![OpFlow] = IdlePub]
    /\ UNCHANGED <<now, hostOffset, PUBLISH_SCHEDULE, URGENT_KEYWORDS, jobHours,
                   news_queue, nextId, worker, sent, marks, lastTick, opCount,
                   boot, reply,
                   urgent_keywords, config_table, CHECK_INTERVAL, connection_pool,
                   deepseek, request>>

\* success = self.db.update_processed_text(news_id, rewritten_text)
RewriteUpdate ==
    /\ pub[OpFlow].pc = "rw_update"
    /\ news_queue' = update_processed_text(news_queue, pub[OpFlow].id, RewrittenText)
    /\ pub' = [pub EXCEPT ![OpFlow] = IdlePub]
    /\ UNCHANGED <<now, hostOffset, PUBLISH_SCHEDULE, URGENT_KEYWORDS, jobHours,
                   nextId, worker, sent, marks, lastTick, opCount, boot, reply,
                   urgent_keywords, config_table, CHECK_INTERVAL, connection_pool,
                   deepseek, request>>

\* update_processed_text cannot reach the store
RewriteUpdateFails ==
    /\ pub[OpFlow].pc = "rw_update"
    /\ pub' = [pub EXCEPT ![OpFlow] = IdlePub]
    /\ UNCHANGED <<now, hostOffset, PUBLISH_SCHEDULE, URGENT_KEYWORDS, jobHours,
                   news_queue, nextId, worker, sent, marks, lastTick, opCount,
                   boot, reply,
                   urgent_keywords, config_table, CHECK_INTERVAL, connection_pool,
                   deepseek, request>>

Rewrite ==
    \/ RewriteRead
    \/ RewriteReadFails
    \/ RewriteGenerate
    \/ RewriteGenerateFails
    \/ RewriteUpdate
    \/ RewriteUpdateFails

\* ------------------------------------- a message with more URLs than the cap
\* the URLs of one channel message, in message order
LongBatches == {SubSeq(AllocUrls, 1, MAX_ARTICLES_PER_RUN + 1), <<"s8", "s7">>}

\* _handle_channel_message starts _process_urls(urls) on the URLs of a message;
\* the loop runs over urls[:Config.MAX_ARTICLES_PER_RUN]
StartLongBatch(w) ==
    /\ worker[w].pc = "idle"
    /\ nextId <= MaxId
    /\ \E batch \in LongBatches :
         worker' = [worker EXCEPT ![w] =
                      [IdleWorker EXCEPT !.pc = "prepare",
                                         !.urls = Take(batch, MAX_ARTICLES_PER_RUN)]]
    /\ UNCHANGED <<now, hostOffset, PUBLISH_SCHEDULE, URGENT_KEYWORDS, jobHours,
                   news_queue, nextId, pub, sent, marks, lastTick, opCount,
                   boot, reply,
                   urgent_keywords, config_table, CHECK_INTERVAL, connection_pool,
                   deepseek, request>>

\* news_id = self.db.add_news(...) for an article of a long message
AddLongNews(w) ==
    /\ worker[w].pc = "add"
    /\ LET row == Row(Head(worker[w].urls), worker[w].scheduled_time,
                      worker[w].is_urgent, worker[w].horizon_full)
           q == add_news(news_queue, nextId, row)
           news_id == IF nextId \in DOMAIN q THEN nextId ELSE NoId
       IN  /\ news_queue' = q
           /\ nextId' = IF news_id # NoId THEN nextId + 1 ELSE nextId
           /\ worker' = [worker EXCEPT ![w].pc = "added", ![w].news_id = news_id]
    /\ UNCHANGED <<now, hostOffset, PUBLISH_SCHEDULE, URGENT_KEYWORDS, jobHours,
                   pub, sent, marks, lastTick, opCount, boot, reply,
                   urgent_keywords, config_table, CHECK_INTERVAL, connection_pool,
                   deepseek, request>>

\* ------------------------------------------- scheduler helpers, on request
\* the call raised IndexError
Raised == 0 - 2
SlotIndexes == (0 - 3)..4
SlotDates == {0, 1}
SlotSchedules == ConfigSchedules \cup AllocSchedules

\* s[i] of a Python list: a negative index counts from the end
PyIndex(s, i) == IF i >= 0 THEN s[i + 1] ELSE s[Len(s) + i + 1]

\* PublicationScheduler.get_specific_slot(target_date, slot_index)
get_specific_slot(date, slot_index, hours) ==
    IF slot_index >= Len(hours) THEN NoTime
    ELSE IF slot_index < 0 - Len(hours) THEN Raised
    ELSE Combine(date, PyIndex(sorted(hours), slot_index))

Min(S) == CHOOSE x \in S : \A y \in S : x <= y

get_next_publication_time_at_or_after(t, hours) ==
    LET today == DaySlots(Date(t), sorted(hours))
        next_slots == {today[i] : i \in {j \in 1..Len(today) : today[j] >= t}}
    IN  IF next_slots # {} THEN Min(next_slots)
        ELSE Combine(Date(t) + 1, Min({hours[i] : i \in 1..Len(hours)}))

\* PublicationScheduler.get_next_publication_time()
get_next_publication_time(t, hours) ==
    LET today == DaySlots(Date(t), sorted(hours))
        next_slots == {today[i] : i \in {j \in 1..Len(today) : today[j] > t}}
    IN  IF next_slots # {} THEN Min(next_slots)
        ELSE Combine(Date(t) + 1, Min({hours[i] : i \in 1..Len(hours)}))

InitSlots ==
    /\ now = StartTime
    /\ hostOffset = 0
    /\ PUBLISH_SCHEDULE \in SlotSchedules
    /\ URGENT_KEYWORDS = DefaultKeywords
    /\ urgent_keywords = get_urgent_keywords
    /\ config_table = EmptyTable
    /\ CHECK_INTERVAL = DefaultInterval
    /\ connection_pool = {}
    /\ deepseek = IdleClient
    /\ request = NoRequest
    /\ jobHours = {}
    /\ news_queue = <<>>
    /\ nextId = 1
    /\ worker = [w \in Workers |-> IdleWorker]
    /\ pub = [f \in Flows |-> IdlePub]
    /\ sent = [id \in Ids |-> 0]
    /\ marks = [id \in Ids |-> 0]
    /\ lastTick = NoTime
    /\ opCount = 0
    /\ boot = "running"
    /\ reply = NoReply

\* a caller asks for one slot of one date
call_get_specific_slot(date, slot_index) ==
    /\ reply' = [op |-> "get_specific_slot",
                 value |-> get_specific_slot(date, slot_index, get_publish_hours)]
    /\ UNCHANGED <<now, hostOffset, PUBLISH_SCHEDULE, URGENT_KEYWORDS, jobHours,
                   news_queue, nextId, worker, pub, sent, marks, lastTick, opCount,
                   boot,
                   urgent_keywords, config_table, CHECK_INTERVAL, connection_pool,
                   deepseek, request>>

\* /status shows self.scheduler.get_next_publication_time()
call_get_next_publication_time ==
    /\ reply' = [op |-> "get_next_publication_time",
                 value |-> get_next_publication_time(now, get_publish_hours)]
    /\ UNCHANGED <<now, hostOffset, PUBLISH_SCHEDULE, URGENT_KEYWORDS, jobHours,
                   news_queue, nextId, worker, pub, sent, marks, lastTick, opCount,
                   boot,
                   urgent_keywords, config_table, CHECK_INTERVAL, connection_pool,
                   deepseek, request>>

\* ----------------------------- hour lists as /set_config or the environment
\* give them: Config.get_publish_hours splits and converts, nothing more
CandidateSchedules == SlotSchedules \cup {<<12, 20, 12>>}

InitCandidates ==
    /\ now = StartTime
    /\ hostOffset = 0
    /\ PUBLISH_SCHEDULE \in CandidateSchedules
    /\ URGENT_KEYWORDS = DefaultKeywords
    /\ urgent_keywords = get_urgent_keywords
    /\ config_table = EmptyTable
    /\ CHECK_INTERVAL = DefaultInterval
    /\ connection_pool = {}
    /\ deepseek = IdleClient
    /\ request = NoRequest
    /\ jobHours = {}
    /\ news_queue = <<>>
    /\ nextId = 1
    /\ worker = [w \in Workers |-> IdleWorker]
    /\ pub = [f \in Flows |-> IdlePub]
    /\ sent = [id \in Ids |-> 0]
    /\ marks = [id \in Ids |-> 0]
    /\ lastTick = NoTime
    /\ opCount = 0
    /\ boot = "running"
    /\ reply = NoReply

\* ------------------------------------------------------------- startup
\* the PUBLISH_SCHEDULE row of the configuration table: absent, or a value
StoredSchedules == {NoValue} \cup ConfigSchedules

\* the stored value of a key, or the default when the key has no row
get_config(stored, default) == IF stored = NoValue THEN default ELSE stored

\* the process starts with the environment default of PUBLISH_SCHEDULE
InitStartup ==
    /\ now = StartTime
    /\ hostOffset = 0
    /\ PUBLISH_SCHEDULE = <<8, 12, 16, 20>>
    /\ URGENT_KEYWORDS = DefaultKeywords
    /\ urgent_keywords = get_urgent_keywords
    /\ config_table = EmptyTable
    /\ CHECK_INTERVAL = DefaultInterval
    /\ connection_pool = {}
    /\ deepseek = IdleClient
    /\ request = NoRequest
    /\ jobHours = {}
    /\ news_queue = <<>>
    /\ nextId = 1
    /\ worker = [w \in Workers |-> IdleWorker]
    /\ pub = [f \in Flows |-> IdlePub]
    /\ sent = [id \in Ids |-> 0]
    /\ marks = [id \in Ids |-> 0]
    /\ lastTick = NoTime
    /\ opCount = 0
    /\ boot = "start"
    /\ reply = NoReply

\* run_bot: setup_scheduler() registers one cron job per hour of
\* Config.get_publish_hours() as it is at that moment
setup_scheduler ==
    /\ boot = "start"
    /\ jobHours' = {get_publish_hours[i] : i \in 1..Len(get_publish_hours)}
    /\ boot' = "scheduled"
    /\ UNCHANGED <<now, hostOffset, PUBLISH_SCHEDULE, URGENT_KEYWORDS, news_queue,
                   nextId, worker, pub, sent, marks, lastTick, opCount, reply,
                   urgent_keywords, config_table, CHECK_INTERVAL, connection_pool,
                   deepseek, request>>

\* run_bot: start_bot() then calls Config.init_from_database(database)
init_from_database ==
    /\ boot = "scheduled"
    /\ \E stored \in StoredSchedules :
         PUBLISH_SCHEDULE' = get_config(stored, PUBLISH_SCHEDULE)
    /\ boot' = "running"
    /\ UNCHANGED <<now, hostOffset, URGENT_KEYWORDS, jobHours, news_queue, nextId,
                   worker, pub, sent, marks, lastTick, opCount, reply,
                   urgent_keywords, config_table, CHECK_INTERVAL, connection_pool,
                   deepseek, request>>

\* the bot is polling: channel messages and commands are handled
Running == boot = "running"

\* ------------------------------------------------- the host's timezone
\* the process runs on a host whose local clock is the civil clock or lags it
InitClock ==
    /\ now = StartTime
    /\ hostOffset \in HostOffsets
    /\ PUBLISH_SCHEDULE = <<8, 12, 16, 20>>
    /\ URGENT_KEYWORDS = DefaultKeywords
    /\ urgent_keywords = get_urgent_keywords
    /\ config_table = EmptyTable
    /\ CHECK_INTERVAL = DefaultInterval
    /\ connection_pool = {}
    /\ deepseek = IdleClient
    /\ request = NoRequest
    /\ jobHours = {8, 12, 16, 20}
    /\ news_queue = <<>>
    /\ nextId = 1
    /\ worker = [w \in Workers |-> IdleWorker]
    /\ pub = [f \in Flows |-> IdlePub]
    /\ sent = [id \in Ids |-> 0]
    /\ marks = [id \in Ids |-> 0]
    /\ lastTick = NoTime
    /\ opCount = 0
    /\ boot = "running"
    /\ reply = NoReply

\* ------------------------------------------- ticks that recur for ever
\* the last instant the clock distinguishes: it stands for every later time
LastInstant == CHOOSE t \in ClockInstants : \A u \in ClockInstants : u <= t

\* after the last distinguished instant the next registered trigger hour comes
NextTriggerHour ==
    /\ now = LastInstant
    /\ pub[TickFlow].pc = "idle"
    /\ lastTick = HostNow
    /\ lastTick' = NoTime
    /\ UNCHANGED <<now, hostOffset, PUBLISH_SCHEDULE, URGENT_KEYWORDS, jobHours,
                   news_queue, nextId, worker, pub, sent, marks, opCount,
                   boot, reply,
                   urgent_keywords, config_table, CHECK_INTERVAL, connection_pool,
                   deepseek, request>>

\* channel messages arrive only before the last distinguished instant
Arrives == now < LastInstant

\* ------------------------------- two ingestion threads and the allocator
\* the articles each thread is handed, one at a time
RaceUrls(w) == IF w = "w1" THEN {"s1", "s3"} ELSE {"s2", "s4"}

\* threading.Thread(target=self._process_urls, ...): one thread per message
StartRace(w) ==
    /\ worker[w].pc = "idle"
    /\ \E url \in RaceUrls(w) :
         /\ ~UrlExists(news_queue, url)
         /\ worker' = [worker EXCEPT ![w] =
                         [IdleWorker EXCEPT !.pc = "prepare", !.urls = <<url>>]]
    /\ UNCHANGED <<now, hostOffset, PUBLISH_SCHEDULE, URGENT_KEYWORDS, jobHours,
                   news_queue, nextId, pub, sent, marks, lastTick, opCount,
                   boot, reply,
                   urgent_keywords, config_table, CHECK_INTERVAL, connection_pool,
                   deepseek, request>>

\* ------------------------------------- a host clock on either side of civil
\* the naive host clock equals the civil clock, lags it or leads it
HostZones == HostOffsets \cup {TicksPerHour}

\* the civil instants this clock distinguishes: an hour before a slot, the slot
ZoneInstants == {Combine(0, 11), Combine(0, 12)}

AdvanceZoneClock ==
    /\ \E t \in ZoneInstants : t > now /\ now' = t
    /\ UNCHANGED <<hostOffset, PUBLISH_SCHEDULE, URGENT_KEYWORDS, jobHours,
                   news_queue, nextId, worker, pub, sent, marks, lastTick, opCount,
                   boot, reply,
                   urgent_keywords, config_table, CHECK_INTERVAL, connection_pool,
                   deepseek, request>>

InitZones ==
    /\ now = StartTime
    /\ hostOffset \in HostZones
    /\ PUBLISH_SCHEDULE = <<8, 12, 16, 20>>
    /\ URGENT_KEYWORDS = DefaultKeywords
    /\ urgent_keywords = get_urgent_keywords
    /\ config_table = EmptyTable
    /\ CHECK_INTERVAL = DefaultInterval
    /\ connection_pool = {}
    /\ deepseek = IdleClient
    /\ request = NoRequest
    /\ jobHours = {8, 12, 16, 20}
    /\ news_queue = <<>>
    /\ nextId = 1
    /\ worker = [w \in Workers |-> IdleWorker]
    /\ pub = [f \in Flows |-> IdlePub]
    /\ sent = [id \in Ids |-> 0]
    /\ marks = [id \in Ids |-> 0]
    /\ lastTick = NoTime
    /\ opCount = 0
    /\ boot = "running"
    /\ reply = NoReply

\* --------------------------------------- /set_config and /reload_config
KeywordBatches == {<<"k1", "k2">>, <<"k3", "u">>}
KeywordValues == {<<"A", "B">>, <<"a", " ", "b">>, <<"e", ",", " ", "B">>,
                  <<"a", ",">>, <<"g">>}
IntervalValues == {<<"3", "0">>, <<"a", "b">>}
ConfigValues(key) ==
    CASE key = "URGENT_KEYWORDS" -> KeywordValues
      [] key = "CHECK_INTERVAL" -> IntervalValues
      [] OTHER -> {<<"l">>}

\* the row of a key is written to the config table
set_config(table, key, value) == [table EXCEPT ![key] = value]

\* [kw.strip().lower() for kw in value.split(',')]
get_urgent_keywords_of(value) ==
    LET parts == split(value, ",")
    IN  [i \in 1..Len(parts) |-> lower(strip(parts[i]))]

\* a channel message whose articles exercise the keyword match
StartKeywordBatch(w) ==
    /\ worker[w].pc = "idle"
    /\ nextId <= MaxId
    /\ \E batch \in KeywordBatches :
         worker' = [worker EXCEPT ![w] =
                      [IdleWorker EXCEPT !.pc = "prepare",
                                         !.urls = Take(batch, MAX_ARTICLES_PER_RUN)]]
    /\ UNCHANGED <<now, hostOffset, PUBLISH_SCHEDULE, URGENT_KEYWORDS, jobHours,
                   news_queue, nextId, pub, sent, marks, lastTick, opCount,
                   boot, reply,
                   urgent_keywords, config_table, CHECK_INTERVAL, connection_pool,
                   deepseek, request>>

\* /set_config key value when set_config answers False: update_config returns
\* False and the handler reports the error
cmd_set_config_store_fails(key, value) ==
    /\ opCount < MaxOps
    /\ opCount' = opCount + 1
    /\ reply' = [op |-> "update_config", key |-> key, value |-> "False"]
    /\ UNCHANGED <<now, hostOffset, PUBLISH_SCHEDULE, URGENT_KEYWORDS, jobHours,
                   news_queue, nextId, worker, pub, sent, marks, lastTick, boot,
                   urgent_keywords, config_table, CHECK_INTERVAL, connection_pool,
                   deepseek, request>>

\* /set_config key value when the row is written and int(value) raises: the
\* handler's except reports the error
cmd_set_config_raises(key, value) ==
    /\ opCount < MaxOps
    /\ opCount' = opCount + 1
    /\ key = "CHECK_INTERVAL"
    /\ IntRaises(value)
    /\ config_table' = set_config(config_table, key, value)
    /\ reply' = [op |-> "update_config", key |-> key, value |-> "raised"]
    /\ UNCHANGED <<now, hostOffset, PUBLISH_SCHEDULE, URGENT_KEYWORDS, jobHours,
                   news_queue, nextId, worker, pub, sent, marks, lastTick, boot,
                   urgent_keywords, CHECK_INTERVAL, connection_pool, deepseek,
                   request>>

\* /set_config key value when the row is written: update_config assigns the
\* class attribute of a recognized key and returns True, then the handler
\* refreshes its keyword cache
cmd_set_config(key, value) ==
    /\ opCount < MaxOps
    /\ opCount' = opCount + 1
    /\ ~(key = "CHECK_INTERVAL" /\ IntRaises(value))
    /\ config_table' = set_config(config_table, key, value)
    /\ URGENT_KEYWORDS' = IF key = "URGENT_KEYWORDS" THEN value ELSE URGENT_KEYWORDS
    /\ CHECK_INTERVAL' = IF key = "CHECK_INTERVAL" THEN int(value) ELSE CHECK_INTERVAL
    /\ urgent_keywords' = IF key = "URGENT_KEYWORDS"
                          THEN get_urgent_keywords_of(value) ELSE urgent_keywords
    /\ reply' = [op |-> "update_config", key |-> key, value |-> "True"]
    /\ UNCHANGED <<now, hostOffset, PUBLISH_SCHEDULE, jobHours, news_queue, nextId,
                   worker, pub, sent, marks, lastTick, boot, connection_pool,
                   deepseek, request>>

\* /reload_config: Config.reload_from_database() assigns the stored keywords,
\* then int() of the stored interval; when it raises the handler's cache is
\* not refreshed
cmd_reload_config ==
    /\ opCount < MaxOps
    /\ opCount' = opCount + 1
    /\ LET keywords == get_config(config_table["URGENT_KEYWORDS"], URGENT_KEYWORDS)
           stored == config_table["CHECK_INTERVAL"]
           raises == stored # NoValue /\ IntRaises(stored)
       IN  /\ URGENT_KEYWORDS' = keywords
           /\ CHECK_INTERVAL' = IF stored = NoValue \/ raises
                                THEN CHECK_INTERVAL ELSE int(stored)
           /\ urgent_keywords' = IF raises THEN urgent_keywords
                                 ELSE get_urgent_keywords_of(keywords)
           /\ reply' = [op |-> "reload_from_database", key |-> "",
                        value |-> IF raises THEN "raised" ELSE "None"]
    /\ UNCHANGED <<now, hostOffset, PUBLISH_SCHEDULE, jobHours, news_queue, nextId,
                   worker, pub, sent, marks, lastTick, boot, config_table,
                   connection_pool, deepseek, request>>

\* --------------------------------------------------- the connection pool
\* a flow starts a channel send, a page fetch or a rewrite request
BeginExternalCall(f) ==
    /\ pub[f].pc = "idle"
    /\ pub' = [pub EXCEPT ![f].pc = "external"]
    /\ UNCHANGED <<now, hostOffset, PUBLISH_SCHEDULE, URGENT_KEYWORDS, jobHours,
                   news_queue, nextId, worker, sent, marks, lastTick, opCount,
                   boot, reply,
                   urgent_keywords, config_table, CHECK_INTERVAL, connection_pool,
                   deepseek, request>>

\* the external call returns or raises
EndExternalCall(f) ==
    /\ pub[f].pc = "external"
    /\ pub' = [pub EXCEPT ![f].pc = "idle"]
    /\ UNCHANGED <<now, hostOffset, PUBLISH_SCHEDULE, URGENT_KEYWORDS, jobHours,
                   news_queue, nextId, worker, sent, marks, lastTick, opCount,
                   boot, reply,
                   urgent_keywords, config_table, CHECK_INTERVAL, connection_pool,
                   deepseek, request>>

\* a store operation enters `with self._get_connection() as conn:`
\* conn = self.connection_pool.getconn()
getconn(f) ==
    /\ pub[f].pc = "idle"
    /\ Cardinality(connection_pool) < MaxConn
    /\ connection_pool' = connection_pool \cup {f}
    /\ pub' = [pub EXCEPT ![f].pc = "with"]
    /\ UNCHANGED <<now, hostOffset, PUBLISH_SCHEDULE, URGENT_KEYWORDS, jobHours,
                   news_queue, nextId, worker, sent, marks, lastTick, opCount,
                   boot, reply,
                   urgent_keywords, config_table, CHECK_INTERVAL,
                   deepseek, request>>

\* getconn() raises PoolError when every connection is checked out: the body
\* of the with-block is not entered
getconn_raises(f) ==
    /\ pub[f].pc = "idle"
    /\ Cardinality(connection_pool) >= MaxConn
    /\ reply' = [op |-> "getconn", value |-> "PoolError"]
    /\ UNCHANGED <<now, hostOffset, PUBLISH_SCHEDULE, URGENT_KEYWORDS, jobHours,
                   news_queue, nextId, worker, pub, sent, marks, lastTick, opCount,
                   boot,
                   urgent_keywords, config_table, CHECK_INTERVAL, connection_pool,
                   deepseek, request>>

\* the body ends: conn.commit(), then `finally: putconn(conn)`
commit_putconn(f) ==
    /\ pub[f].pc = "with"
    /\ connection_pool' = connection_pool \ {f}
    /\ pub' = [pub EXCEPT ![f].pc = "idle"]
    /\ reply' = [op |-> "_get_connection", value |-> "commit"]
    /\ UNCHANGED <<now, hostOffset, PUBLISH_SCHEDULE, URGENT_KEYWORDS, jobHours,
                   news_queue, nextId, worker, sent, marks, lastTick, opCount,
                   boot,
                   urgent_keywords, config_table, CHECK_INTERVAL,
                   deepseek, request>>

rollback_keeps_connection(f) ==
    /\ pub[f].pc = "with"
    /\ pub' = [pub EXCEPT ![f].pc = "idle"]
    /\ reply' = [op |-> "_get_connection", value |-> "rollback"]
    /\ UNCHANGED <<now, hostOffset, PUBLISH_SCHEDULE, URGENT_KEYWORDS, jobHours,
                   news_queue, nextId, worker, sent, marks, lastTick, opCount,
                   boot,
                   urgent_keywords, config_table, CHECK_INTERVAL, connection_pool,
                   deepseek, request>>

\* the body raises: conn.rollback(), re-raise, then `finally: putconn(conn)`
rollback_putconn(f) ==
    /\ pub[f].pc = "with"
    /\ connection_pool' = connection_pool \ {f}
    /\ pub' = [pub EXCEPT ![f].pc = "idle"]
    /\ reply' = [op |-> "_get_connection", value |-> "rollback"]
    /\ UNCHANGED <<now, hostOffset, PUBLISH_SCHEDULE, URGENT_KEYWORDS, jobHours,
                   news_queue, nextId, worker, sent, marks, lastTick, opCount,
                   boot,
                   urgent_keywords, config_table, CHECK_INTERVAL,
                   deepseek, request>>

\* ------------------------------------------------- the administrator check
Users == {"admin", "guest"}
\* the account of the bot, the sender of every message that carries buttons
BotUser == "bot"
CommandActions == {"publish", "rewrite", "set_config", "reload_config"}
CallbackData == {"publish_execute", "delete_execute", "clear_queue_execute",
                 "rewrite", "cmd_reload_config"}

\* the operator action behind the data of a button
ActionOf(data) ==
    CASE data = "publish_execute" -> "publish"
      [] data = "delete_execute" -> "delete"
      [] data = "clear_queue_execute" -> "clear"
      [] data = "cmd_reload_config" -> "reload_config"
      [] OTHER -> data

is_admin_or_anyone(user_id) == TRUE

\* if Config.ADMIN_USER_ID: if user_id != Config.ADMIN_USER_ID: ... return
is_admin(user_id) == IF ADMIN_USER_ID # "" THEN user_id = ADMIN_USER_ID ELSE TRUE

\* a text command: user_id = str(message.from_user.id), then the check
handle_command(user, action) ==
    /\ request.pc # "authorized"
    /\ request' = [pc |-> IF is_admin(user) THEN "authorized" ELSE "rejected",
                   user |-> user, via |-> "command", action |-> action]
    /\ UNCHANGED <<now, hostOffset, PUBLISH_SCHEDULE, URGENT_KEYWORDS, jobHours,
                   news_queue, nextId, worker, pub, sent, marks, lastTick, opCount,
                   boot, reply,
                   urgent_keywords, config_table, CHECK_INTERVAL, connection_pool,
                   deepseek>>

\* a button is pressed: the navigation entries are dispatched first and run the
\* command handler on call.message, whose sender is the bot; for every other
\* entry user_id = str(call.from_user.id) is checked
handle_callback_query(user, data) ==
    /\ request.pc # "authorized"
    /\ LET user_id == IF data = "cmd_reload_config" THEN BotUser ELSE user
       IN  request' = [pc |-> IF is_admin(user_id) THEN "authorized" ELSE "rejected",
                       user |-> user, via |-> "callback", action |-> ActionOf(data)]
    /\ UNCHANGED <<now, hostOffset, PUBLISH_SCHEDULE, URGENT_KEYWORDS, jobHours,
                   news_queue, nextId, worker, pub, sent, marks, lastTick, opCount,
                   boot, reply,
                   urgent_keywords, config_table, CHECK_INTERVAL, connection_pool,
                   deepseek>>

\* the handler of an admitted request returns
finish_request ==
    /\ request.pc = "authorized"
    /\ request' = NoRequest
    /\ UNCHANGED <<now, hostOffset, PUBLISH_SCHEDULE, URGENT_KEYWORDS, jobHours,
                   news_queue, nextId, worker, pub, sent, marks, lastTick, opCount,
                   boot, reply,
                   urgent_keywords, config_table, CHECK_INTERVAL, connection_pool,
                   deepseek>>

\* the handler has passed the check and runs the action
Authorized(action) == request.pc = "authorized" /\ request.action = action

\* ------------------------------------------ the one-off style of a rewrite
\* new_style of a rewrite: a style button, or None for a length-only rewrite
RewriteStyles == {"ironic", NoStyle}

\* rewrite_article: original_style = self.style; `if new_style:` self.style =
\* new_style; the prompt is built and the request is sent
rewrite_article_begin(new_style) ==
    /\ pub[OpFlow].pc = "rw_generate"
    /\ pub' = [pub EXCEPT ![OpFlow].pc = "rw_request"]
    /\ deepseek' = [deepseek EXCEPT !.original_style = deepseek.style,
                                    !.style = IF new_style # NoStyle
                                              THEN new_style ELSE @]
    /\ UNCHANGED <<now, hostOffset, PUBLISH_SCHEDULE, URGENT_KEYWORDS, jobHours,
                   news_queue, nextId, worker, sent, marks, lastTick, opCount,
                   boot, reply,
                   urgent_keywords, config_table, CHECK_INTERVAL, connection_pool,
                   request>>

\* the request answers a text: self.style = original_style, the text is returned
rewrite_article_returns ==
    /\ pub[OpFlow].pc = "rw_request"
    /\ pub' = [pub EXCEPT ![OpFlow].pc = "rw_update"]
    /\ deepseek' = [deepseek EXCEPT !.style = deepseek.original_style,
                                    !.original_style = NoStyle]
    /\ UNCHANGED <<now, hostOffset, PUBLISH_SCHEDULE, URGENT_KEYWORDS, jobHours,
                   news_queue, nextId, worker, sent, marks, lastTick, opCount,
                   boot, reply,
                   urgent_keywords, config_table, CHECK_INTERVAL, connection_pool,
                   request>>

\* the request answers nothing or raises: self.style = original_style, None is
\* returned and the handler shows an error
rewrite_article_fails ==
    /\ pub[OpFlow].pc = "rw_request"
    /\ pub' = [pub EXCEPT ![OpFlow] = IdlePub]
    /\ deepseek' = [deepseek EXCEPT !.style = deepseek.original_style,
                                    !.original_style = NoStyle]
    /\ UNCHANGED <<now, hostOffset, PUBLISH_SCHEDULE, URGENT_KEYWORDS, jobHours,
                   news_queue, nextId, worker, sent, marks, lastTick, opCount,
                   boot, reply,
                   urgent_keywords, config_table, CHECK_INTERVAL, connection_pool,
                   request>>

\* ------------------------------------------------------- specifications
Ingest(w) ==
    \/ StartBatch(w)
    \/ PrepareFails(w)
    \/ Prepare(w)
    \/ AddNewsFails(w)
    \/ AddNews(w)
    \/ AfterAdd(w)

Publish(f) ==
    \/ PubReadFails(f)
    \/ PubRead(f)
    \/ PubSend(f)
    \/ PubSendFails(f)
    \/ PubMark(f)
    \/ PubMarkFails(f)
    \/ PubFail(f)
    \/ PubFailFails(f)

\* one ingestion at a time, the dispatcher ticks and the operator
Next ==
    \/ AdvanceClock
    \/ \E w \in MainWorkers : Ingest(w)
    \/ \E f \in Flows : Publish(f)
    \/ publish_scheduled_news
    \/ \E id \in Ids : execute_publish(id)
    \/ \E id \in Ids : execute_delete(id)
    \/ execute_clear_queue

Spec == Init /\ [][Next]_vars

\* concurrent ingestion threads, with operator deletions
NextIngest ==
    \/ AdvanceClock
    \/ \E w \in Workers : Ingest(w)
    \/ \E f \in Workers : Publish(f)
    \/ \E id \in Ids : execute_delete(id)
    \/ execute_clear_queue

SpecIngest == Init /\ [][NextIngest]_vars

\* one ingestion at a time and the dispatcher ticks; a tick that has started
\* runs on until publish_news_by_id returns
NextTick ==
    \/ AdvanceClock
    \/ \E w \in MainWorkers : Ingest(w)
    \/ \E f \in MainWorkers : Publish(f)
    \/ Publish(TickFlow)
    \/ publish_scheduled_news
    \/ publish_scheduled_news_down

SpecTick == Init /\ [][NextTick]_vars /\ WF_vars(Publish(TickFlow))

\* one ingestion at a time while the operator changes the publication hours
NextConfig ==
    \/ AdvanceClock
    \/ \E w \in MainWorkers : Ingest(w)
    \/ \E f \in MainWorkers : Publish(f)
    \/ \E value \in ConfigSchedules : update_config_PUBLISH_SCHEDULE(value)

SpecConfig == Init /\ [][NextConfig]_vars

\* one ingestion at a time over several days, with the nightly sweep
NextRetention ==
    \/ AdvanceDays
    \/ \E w \in MainWorkers : Ingest(w)
    \/ \E f \in MainWorkers : Publish(f)
    \/ cleanup_old_news_job

SpecRetention == Init /\ [][NextRetention]_vars

\* callers of the allocator, with and without a store, and operator deletions
NextAlloc ==
    \/ AdvanceClock
    \/ \E w \in MainWorkers : StartOne(w)
    \/ \E w \in MainWorkers : Prepare(w)
    \/ \E w \in MainWorkers : PrepareWithStore(w)
    \/ \E w \in MainWorkers : PrepareWithStoreRaises(w)
    \/ \E w \in MainWorkers : AllocRaised(w)
    \/ \E w \in MainWorkers : AddOne(w)
    \/ \E id \in Ids : execute_delete(id)

SpecAlloc == InitAlloc /\ [][NextAlloc]_vars

\* one ingestion at a time while the operator rewrites or deletes a record
NextRewrite ==
    \/ AdvanceClock
    \/ \E w \in MainWorkers : Ingest(w)
    \/ \E f \in MainWorkers : Publish(f)
    \/ \E id \in Ids : execute_rewrite(id)
    \/ Rewrite
    \/ \E id \in Ids : execute_delete(id)

SpecRewrite == Init /\ [][NextRewrite]_vars

\* messages with more URLs than the cap, one ingestion at a time
NextCap ==
    \/ \E w \in MainWorkers : StartLongBatch(w)
    \/ \E w \in MainWorkers : PrepareFails(w)
    \/ \E w \in MainWorkers : Prepare(w)
    \/ \E w \in MainWorkers : AddNewsFails(w)
    \/ \E w \in MainWorkers : AddLongNews(w)
    \/ \E w \in MainWorkers : AfterAdd(w)

SpecCap == Init /\ [][NextCap]_vars

\* one ingestion thread that is scheduled again and again until it returns
NextBatch ==
    \/ AdvanceClock
    \/ \E w \in MainWorkers : Ingest(w)
    \/ \E f \in MainWorkers : Publish(f)

SpecBatch ==
    Init /\ [][NextBatch]_vars /\ WF_vars(\E w \in MainWorkers : Ingest(w) \/ Publish(w))

\* the scheduler helpers are called while articles are ingested
NextSlots ==
    \/ AdvanceClock
    \/ \E w \in MainWorkers : Ingest(w)
    \/ \E f \in MainWorkers : Publish(f)
    \/ \E date \in SlotDates, slot_index \in SlotIndexes :
         call_get_specific_slot(date, slot_index)
    \/ call_get_next_publication_time

SpecSlots == InitSlots /\ [][NextSlots]_vars

\* callers of the allocator under every hour list the configuration accepts
SpecCandidates == InitCandidates /\ [][NextAlloc]_vars

\* the startup sequence of run_bot, then ingestion and /set_config
NextStartup ==
    \/ setup_scheduler
    \/ init_from_database
    \/ Running /\ AdvanceClock
    \/ Running /\ \E w \in MainWorkers : Ingest(w)
    \/ Running /\ \E f \in MainWorkers : Publish(f)
    \/ Running /\ \E value \in ConfigSchedules : update_config_PUBLISH_SCHEDULE(value)

SpecStartup == InitStartup /\ [][NextStartup]_vars

\* ingestion and dispatcher ticks on a host in either timezone
SpecClock == InitClock /\ [][NextTick]_vars

\* finitely many articles, no operator, and cron ticks for ever; the store's
\* failures are transient: a tick that keeps being fired gets its query through
\* and a status update that keeps being tried gets through
NextLive ==
    \/ AdvanceClock
    \/ NextTriggerHour
    \/ Arrives /\ \E w \in MainWorkers : StartBatch(w)
    \/ Arrives /\ \E w \in MainWorkers : Prepare(w)
    \/ \E w \in MainWorkers : PrepareFails(w)
    \/ \E w \in MainWorkers : AddNewsFails(w)
    \/ \E w \in MainWorkers : AddNews(w)
    \/ \E w \in MainWorkers : AfterAdd(w)
    \/ \E f \in MainWorkers : Publish(f)
    \/ Publish(TickFlow)
    \/ publish_scheduled_news
    \/ publish_scheduled_news_down

SpecLive ==
    /\ Init /\ [][NextLive]_vars
    /\ WF_vars(AdvanceClock)
    /\ WF_vars(NextTriggerHour)
    /\ WF_vars(Publish(TickFlow))
    /\ SF_vars(publish_scheduled_news)
    /\ SF_vars(PubMark(TickFlow) \/ PubFail(TickFlow))

\* two concurrent ingestions whose allocator call checks the store
NextRace ==
    \/ AdvanceClock
    \/ \E w \in Workers : StartRace(w)
    \/ \E w \in Workers : PrepareWithStore(w)
    \/ \E w \in Workers : AddOne(w)

SpecRace == InitAlloc /\ [][NextRace]_vars

\* ingestion, ticks and operator publish-by-id on a host in any of the zones
NextZones ==
    \/ AdvanceZoneClock
    \/ \E w \in MainWorkers : Ingest(w)
    \/ \E f \in Flows : Publish(f)
    \/ publish_scheduled_news
    \/ \E id \in Ids : execute_publish(id)

SpecZones == InitZones /\ [][NextZones]_vars

\* one ingestion at a time while the operator sets and reloads the settings
NextSettings ==
    \/ \E w \in MainWorkers : StartKeywordBatch(w) \/ Ingest(w) \/ Publish(w)
    \/ \E key \in ConfigKeys : \E value \in ConfigValues(key) :
         \/ cmd_set_config(key, value)
         \/ cmd_set_config_store_fails(key, value)
         \/ cmd_set_config_raises(key, value)
    \/ cmd_reload_config

SpecSettings == Init /\ [][NextSettings]_vars

\* every flow alternates store operations and external calls in any order
NextPool ==
    \E f \in Flows :
        \/ BeginExternalCall(f)
        \/ EndExternalCall(f)
        \/ getconn(f)
        \/ getconn_raises(f)
        \/ commit_putconn(f)
        \/ rollback_putconn(f)

SpecPool == Init /\ [][NextPool]_vars

\* requests of the administrator and of another user, while articles come in
NextAdmin ==
    \/ \E w \in MainWorkers : Ingest(w) \/ Publish(w)
    \/ \E user \in Users :
         \/ \E action \in CommandActions : handle_command(user, action)
         \/ \E data \in CallbackData : handle_callback_query(user, data)
    \/ finish_request
    \/ Authorized("publish") /\ \E id \in Ids : execute_publish(id)
    \/ Authorized("delete") /\ \E id \in Ids : execute_delete(id)
    \/ Authorized("clear") /\ execute_clear_queue
    \/ Authorized("rewrite") /\ \E id \in Ids : execute_rewrite(id)
    \/ Authorized("set_config") /\ \E key \in ConfigKeys :
                                     \E value \in ConfigValues(key) :
                                         cmd_set_config(key, value)
    \/ Authorized("reload_config") /\ cmd_reload_config
    \/ Publish(OpFlow)
    \/ Rewrite

SpecAdmin == Init /\ [][NextAdmin]_vars

\* one ingestion at a time while the operator rewrites a record
NextStyle ==
    \/ \E w \in MainWorkers : Ingest(w) \/ Publish(w)
    \/ \E id \in Ids : execute_rewrite(id)
    \/ RewriteRead
    \/ RewriteReadFails
    \/ \E new_style \in RewriteStyles : rewrite_article_begin(new_style)
    \/ rewrite_article_returns
    \/ rewrite_article_fails
    \/ RewriteUpdate
    \/ RewriteUpdateFails

SpecStyle == Init /\ [][NextStyle]_vars

\* ------------------------------------------------------------ properties
QueryLimits == 0..(MaxId + 1)
Range(s) == {s[i] : i \in 1..Len(s)}
WithUrl(q, url) == {i \in DOMAIN q : q[i].url = url}
IsSlotInstant(t) ==
    OnTheHour(t) /\ \E i \in 1..Len(PUBLISH_SCHEDULE) : PUBLISH_SCHEDULE[i] = Hour(t)

\* every record ever inserted is still there, pending, non-urgent and unsent, and
\* the operator has done nothing: the ingests so far ran back-to-back
BackToBack ==
    /\ DOMAIN news_queue = 1..(nextId - 1)
    /\ opCount = 0
    /\ \A id \in DOMAIN news_queue :
         /\ news_queue[id].status = "pending"
         /\ ~news_queue[id].is_urgent
         /\ sent[id] = 0

\* C1: the store never holds two records with the same url, and an add_news call
\* for a url already present answers None, leaves the table as it was, and leaves
\* exactly one record (at most one pending record) for that url.
C1_UniqueUrl ==
    /\ [](\A i, j \in DOMAIN news_queue :
            news_queue[i].url = news_queue[j].url => i = j)
    /\ [][\A w \in Workers :
            (/\ worker[w].pc = "add"
             /\ worker'[w].pc = "added"
             /\ WithUrl(news_queue, Head(worker[w].urls)) # {})
            => /\ worker'[w].news_id = NoId
               /\ news_queue' = news_queue
               /\ nextId' = nextId
               /\ Cardinality(WithUrl(news_queue', Head(worker[w].urls))) = 1
               /\ Cardinality(WithUrl(news_queue', Head(worker[w].urls))
                              \cap Pending(news_queue')) <= 1]_vars

\* a second add_news for a url has answered None and one record holds that url
C1_Witness ==
    \E w \in Workers :
        /\ worker[w].pc = "added"
        /\ worker[w].news_id = NoId
        /\ Cardinality(WithUrl(news_queue, Head(worker[w].urls))) = 1
        /\ WithUrl(news_queue, Head(worker[w].urls)) \subseteq Pending(news_queue)

\* C2: no record is sent to the target channel twice, and mark_as_published is
\* invoked for it at most once, whatever the interleaving of ticks, the urgent
\* path and the operator's publish-by-id.
C2_NoDoubleSend ==
    \A id \in Ids : sent[id] <= 1 /\ marks[id] <= 1

\* C3: non-urgent articles ingested back-to-back from an empty queue get strictly
\* increasing scheduled_time values in ingestion order, each a configured slot.
C3_SlotsIncrease ==
    BackToBack =>
        \A i, j \in DOMAIN news_queue :
            /\ IsSlotInstant(news_queue[i].scheduled_time)
            /\ i < j => news_queue[i].scheduled_time < news_queue[j].scheduled_time

C4_Expected == <<Combine(0, 12), Combine(0, 16), Combine(0, 20), Combine(1, 8)>>

\* C4: with hours 8,12,16,20, the clock at 09:00 and an empty queue, successive
\* non-urgent ingests are stored at today 12:00, 16:00, 20:00 and tomorrow 08:00.
C4_ScenarioSlots ==
    (BackToBack /\ now = StartTime /\ PUBLISH_SCHEDULE = <<8, 12, 16, 20>>) =>
        \A k \in DOMAIN news_queue :
            k <= Len(C4_Expected) => news_queue[k].scheduled_time = C4_Expected[k]

\* C5: with one ingestion at a time, two pending non-urgent records share a
\* scheduled_time only if every candidate slot of the horizon was taken when the
\* later one got its slot.
C5_NoDoubleBooking ==
    \A i, j \in Pending(news_queue) :
        (/\ i < j
         /\ ~news_queue[i].is_urgent
         /\ ~news_queue[j].is_urgent
         /\ news_queue[i].scheduled_time = news_queue[j].scheduled_time)
        => news_queue[j].horizon_full

C7_StatusMonotone ==
    [][\A id \in DOMAIN news_queue \cap DOMAIN news_queue' :
         news_queue'[id].status # news_queue[id].status
         => /\ news_queue[id].status = "pending"
            /\ news_queue'[id].status \in {"published", "failed"}]_vars

\* C8: get_news_for_publication(limit) returns only pending records whose
\* scheduled_time is not after the query's now, each once, and exactly
\* min(limit, number of such records) of them.
C8_DueOnlyAndCapped ==
    \A limit \in QueryLimits :
        \A res \in get_news_for_publication(news_queue, HostNow, limit) :
            LET due == {id \in DOMAIN news_queue :
                          /\ news_queue[id].status = "pending"
                          /\ news_queue[id].scheduled_time <= HostNow}
            IN  /\ Range(res) \subseteq due
                /\ \A i, j \in 1..Len(res) : res[i] = res[j] => i = j
                /\ Len(res) = IF limit < Cardinality(due) THEN limit
                              ELSE Cardinality(due)

\* a tick has pulled a due record while another pending record is not yet due
C8_Witness ==
    /\ pub[TickFlow].pc = "read"
    /\ pub[TickFlow].id \in Pending(news_queue)
    /\ \E j \in Pending(news_queue) : news_queue[j].scheduled_time > HostNow

\* C9: the returned list has urgent records before non-urgent ones and, within
\* one urgency class, ascending scheduled_time; what the limit cuts off comes no
\* earlier in that order than what it keeps; with limit 1 and an urgent and a
\* non-urgent record due at the same scheduled_time the urgent one is returned.
C9_UrgentFirstThenEarliest ==
    \A limit \in QueryLimits :
        \A res \in get_news_for_publication(news_queue, HostNow, limit) :
            LET q == news_queue
                due == {id \in DOMAIN q : q[id].status = "pending"
                                          /\ q[id].scheduled_time <= HostNow}
                Before(a, b) ==
                    \/ q[a].is_urgent /\ ~q[b].is_urgent
                    \/ /\ q[a].is_urgent = q[b].is_urgent
                       /\ q[a].scheduled_time < q[b].scheduled_time
            IN  /\ \A i, j \in 1..Len(res) : i < j => ~Before(res[j], res[i])
                /\ \A x \in due \ Range(res) : \A i \in 1..Len(res) : ~Before(x, res[i])
                /\ (limit = 1 /\ \E u, a \in due :
                                    /\ q[u].is_urgent
                                    /\ ~q[a].is_urgent
                                    /\ q[u].scheduled_time = q[a].scheduled_time)
                   => q[res[1]].is_urgent

\* a tick has pulled the urgent record while a non-urgent record is pending at
\* the same, past, scheduled_time
C9_Witness ==
    /\ pub[TickFlow].pc = "read"
    /\ pub[TickFlow].id \in Pending(news_queue)
    /\ news_queue[pub[TickFlow].id].is_urgent
    /\ \E a \in Pending(news_queue) :
         /\ ~news_queue[a].is_urgent
         /\ news_queue[a].scheduled_time = news_queue[pub[TickFlow].id].scheduled_time
         /\ news_queue[a].scheduled_time <= HostNow

\* C10: a record that is published or failed never becomes pending again, is in
\* no later result of get_news_for_publication, and is not picked by a tick.
C10_TerminalNeverPulled ==
    [][\A id \in DOMAIN news_queue :
         news_queue[id].status \in {"published", "failed"}
         => /\ id \in DOMAIN news_queue' => news_queue'[id].status # "pending"
            /\ \A limit \in QueryLimits :
                 \A res \in get_news_for_publication(news_queue', now' + hostOffset',
                                                     limit) :
                     id \notin Range(res)
            /\ ~(/\ pub[TickFlow].pc = "idle"
                 /\ pub'[TickFlow].pc = "read"
                 /\ pub'[TickFlow].id = id)]_vars

\* a tick has polled at an instant after a record was marked, and the record is
\* still marked and past its scheduled_time
C10_Witness ==
    /\ lastTick = HostNow
    /\ \E id \in DOMAIN news_queue :
         /\ news_queue[id].status = "failed"
         /\ news_queue[id].scheduled_time < lastTick
         /\ pub[TickFlow].id # id

\* the occupancy of an instant, counted on the table itself
PendingAt(q, t) ==
    {id \in DOMAIN q : q[id].status = "pending" /\ q[id].scheduled_time = t}

\* C13: called for a non-urgent article with a store, get_next_available_slot
\* walks candidates that ascend in time and returns the first one at which no
\* pending record is scheduled; every earlier candidate has at least one.
C13_FirstFreeCandidate ==
    [][\A w \in Workers :
         (PrepareWithStore(w) /\ ~worker'[w].is_urgent)
         => LET slots == available_slots(now, get_publish_hours)
                r == worker'[w].scheduled_time
            IN  /\ \A i, j \in 1..Len(slots) : i < j => slots[i] < slots[j]
                /\ (\E i \in 1..Len(slots) : PendingAt(news_queue, slots[i]) = {})
                   => \E k \in 1..Len(slots) :
                        /\ slots[k] = r
                        /\ PendingAt(news_queue, r) = {}
                        /\ \A j \in 1..(k - 1) :
                             PendingAt(news_queue, slots[j]) # {}]_vars

\* the allocator has passed over an occupied candidate and answered a later,
\* free one
C13_Witness ==
    \E w \in Workers :
        /\ worker[w].pc = "add"
        /\ ~worker[w].is_urgent
        /\ PendingAt(news_queue, worker[w].scheduled_time) = {}
        /\ \E id \in Pending(news_queue) :
             news_queue[id].scheduled_time < worker[w].scheduled_time

\* C14: when every candidate (the rest of today's hours and all hours of the
\* next 7 days) holds a pending record, get_next_available_slot with a store
\* still answers a timestamp: the last candidate of the horizon.
C14_FullHorizonLastCandidate ==
    [][\A w \in Workers :
         (PrepareWithStore(w) /\ ~worker'[w].is_urgent)
         => LET hours == get_publish_hours
                slots == available_slots(now, hours)
                later == {i \in 1..Len(hours) : hours[i] > Hour(now)}
                r == worker'[w].scheduled_time
            IN  /\ Len(slots) = Cardinality(later) + 7 * Len(hours)
                /\ \A i \in 1..Len(slots) : Date(slots[i]) <= Date(now) + 7
                /\ (\A i \in 1..Len(slots) : PendingAt(news_queue, slots[i]) # {})
                   => /\ worker'[w].pc = "add"
                      /\ r # NoTime
                      /\ r = slots[Len(slots)]
                      /\ Date(r) = Date(now) + 7
                      /\ \A i \in 1..Len(hours) : Hour(r) >= hours[i]]_vars

\* an allocation made while every candidate was taken got the last candidate
C14_Witness ==
    \E w \in Workers :
        /\ worker[w].pc = "add"
        /\ worker[w].horizon_full
        /\ Date(worker[w].scheduled_time) = Date(now) + 7
        /\ Cardinality(PendingAt(news_queue, worker[w].scheduled_time)) = 1

\* C15: with no store handed over, or with a store the occupancy query cannot
\* reach, get_next_available_slot for a non-urgent article answers the first
\* candidate and never raises.
C15_FallbackFirstCandidate ==
    /\ [](\A w \in Workers : worker[w].pc # "raised")
    /\ [][\A w \in Workers :
            (Prepare(w) /\ ~worker'[w].is_urgent)
            => worker'[w].scheduled_time
                 = available_slots(now, get_publish_hours)[1]]_vars

\* C11: one run of publish_scheduled_news pulls at most one due record and
\* sends at most one message; when the send succeeded the tick leaves the record
\* published, when the send raised it leaves the record failed and does not try
\* to send again.
C11_OnePerTick ==
    /\ [](\A res \in get_news_for_publication(news_queue, HostNow, 1) :
            Len(res) <= 1)
    /\ [][LET id == pub[TickFlow].id
          IN  /\ pub[TickFlow].pc = "send" => ~pub[TickFlow].tried
              /\ (pub[TickFlow].pc = "mark" /\ pub'[TickFlow].pc = "idle")
                 => /\ id \in DOMAIN news_queue'
                    /\ news_queue'[id].status = "published"
              /\ (pub[TickFlow].pc = "fail" /\ pub[TickFlow].tried
                    /\ pub'[TickFlow].pc = "idle")
                 => /\ id \in DOMAIN news_queue'
                    /\ news_queue'[id].status = "failed"
                    /\ sent' = sent]_vars

TickSteps == {"idle", "read", "send", "mark", "fail"}

\* C12: a dispatcher tick always runs to its end, whether the send raises or the
\* store cannot be reached when the due records are read, when the record is
\* read or when it is marked; a step that could not reach the store changes no
\* record, a tick changes nothing but the record it picked, and at the next
\* cron instant the tick can run again.
C12_TickSurvivesFailures ==
    /\ [](pub[TickFlow].pc \in TickSteps)
    /\ (pub[TickFlow].pc # "idle") ~> (pub[TickFlow].pc = "idle")
    /\ []((/\ pub[TickFlow].pc = "idle"
           /\ Hour(HostNow) \in jobHours
           /\ OnTheHour(HostNow)
           /\ lastTick # HostNow) => ENABLED publish_scheduled_news)
    /\ [][LET id == pub[TickFlow].id
          IN  /\ lastTick' # lastTick => news_queue' = news_queue
              /\ (pub[TickFlow].pc \in {"read", "send"}
                    /\ pub'[TickFlow] # pub[TickFlow])
                 => news_queue' = news_queue
              /\ (pub[TickFlow].pc \in {"mark", "fail"}
                    /\ pub'[TickFlow].pc = "idle")
                 => \/ news_queue' = news_queue
                    \/ /\ DOMAIN news_queue' = DOMAIN news_queue
                       /\ \A i \in DOMAIN news_queue \ {id} :
                            news_queue'[i] = news_queue[i]
                       /\ news_queue'[id].url = news_queue[id].url
                       /\ news_queue'[id].scheduled_time
                            = news_queue[id].scheduled_time
                       /\ news_queue'[id].status \in {"published", "failed"}]_vars

\* a tick has sent its record, could not reach the store to mark it, and has
\* ended: the record is as it was
C12_Witness ==
    /\ lastTick = HostNow
    /\ pub[TickFlow].pc = "idle"
    /\ \E id \in Pending(news_queue) :
         /\ ~news_queue[id].is_urgent
         /\ news_queue[id].scheduled_time <= lastTick
         /\ news_queue[id].published_at = NoTime
         /\ marks[id] = 1

\* C16: in every reachable state the scheduled_time of every non-urgent
\* record is a slot instant of the configured publication hours, on the hour,
\* also after the hours were changed at runtime.
C16_AlwaysConfiguredSlot ==
    \A id \in DOMAIN news_queue :
        ~news_queue[id].is_urgent => IsSlotInstant(news_queue[id].scheduled_time)

\* C16 as amended: the scheduled_time of every non-urgent record is on the hour,
\* its hour was a configured publication hour when the allocator computed it,
\* it is stored as computed and no later step, a change of the hours included,
\* alters it.
C16_SlotWhenAllocated ==
    /\ [](\A id \in DOMAIN news_queue :
            ~news_queue[id].is_urgent
            => /\ news_queue[id].scheduled_time # NoTime
               /\ OnTheHour(news_queue[id].scheduled_time))
    /\ [][/\ \A w \in Workers :
               (Prepare(w) /\ ~worker'[w].is_urgent)
               => IsSlotInstant(worker'[w].scheduled_time)
          /\ \A w \in Workers :
               (worker[w].pc = "add" /\ worker'[w].news_id # NoId)
               => news_queue'[worker'[w].news_id].scheduled_time
                    = worker[w].scheduled_time
          /\ \A id \in DOMAIN news_queue \cap DOMAIN news_queue' :
               news_queue'[id].scheduled_time = news_queue[id].scheduled_time]_vars

\* the hours were changed while a non-urgent record waits at an hour that is no
\* longer configured
C16_Witness ==
    /\ opCount = 1
    /\ \E id \in Pending(news_queue) :
         /\ ~news_queue[id].is_urgent
         /\ OnTheHour(news_queue[id].scheduled_time)
         /\ ~IsSlotInstant(news_queue[id].scheduled_time)

\* C17: ingesting a URL the store already holds, urgent or not, creates no
\* record, leaves the existing record and every other record as they are, sends
\* nothing, and the ingestion goes on with the rest of its batch.
C17_DuplicateIsNoOp ==
    [][\A w \in Workers :
         /\ (AddNews(w) /\ WithUrl(news_queue, Head(worker[w].urls)) # {})
            => /\ worker'[w].news_id = NoId
               /\ news_queue' = news_queue
               /\ nextId' = nextId
               /\ sent' = sent
               /\ pub' = pub
         /\ (AfterAdd(w) /\ worker[w].news_id = NoId)
            => /\ news_queue' = news_queue
               /\ sent' = sent
               /\ marks' = marks
               /\ pub' = pub
               /\ IF Len(worker[w].urls) > 1
                  THEN /\ worker'[w].pc = "prepare"
                       /\ worker'[w].urls = Tail(worker[w].urls)
                  ELSE worker'[w].pc = "idle"]_vars

\* an urgent URL that was already published has been ingested again and
\* add_news answered None, with another URL of the batch still to come
C17_Witness ==
    \E w \in Workers :
        /\ worker[w].pc = "added"
        /\ worker[w].news_id = NoId
        /\ worker[w].is_urgent
        /\ Len(worker[w].urls) > 1
        /\ \E id \in WithUrl(news_queue, Head(worker[w].urls)) :
             /\ news_queue[id].status = "published"
             /\ sent[id] = 1

\* C18: published_at is unset while a record is pending, is set when the record
\* becomes published, and once set is never overwritten.
C18_PublishedAtSetOnce ==
    /\ [](\A id \in Pending(news_queue) : news_queue[id].published_at = NoTime)
    /\ [][\A id \in DOMAIN news_queue \cap DOMAIN news_queue' :
            /\ (news_queue[id].status # "published"
                  /\ news_queue'[id].status = "published")
               => news_queue'[id].published_at # NoTime
            /\ news_queue[id].published_at # NoTime
               => news_queue'[id].published_at = news_queue[id].published_at]_vars

\* C20: clear_queue deletes every pending record and no other: published and
\* failed records are present and unchanged afterwards and no record is pending.
C20_ClearQueueOnlyPending ==
    [][execute_clear_queue
       => /\ Pending(news_queue') = {}
          /\ DOMAIN news_queue' = DOMAIN news_queue \ Pending(news_queue)
          /\ \A id \in DOMAIN news_queue :
               news_queue[id].status \in {"published", "failed"}
               => /\ id \in DOMAIN news_queue'
                  /\ news_queue'[id] = news_queue[id]]_vars

\* the queue was cleared: of the two records ingested, the pending one is gone
\* and the failed one is still there
C20_Witness ==
    /\ opCount = 1
    /\ nextId = 3
    /\ Pending(news_queue) = {}
    /\ \E id \in DOMAIN news_queue :
         /\ DOMAIN news_queue = {id}
         /\ news_queue[id].status = "failed"

\* C19: after a retention sweep with a window of 7 days no published record
\* older than the window is left, and every pending record, every failed record
\* and every published record within the window is there, unchanged.
C19_SweepOnlyOldPublished ==
    [][cleanup_old_news_job
       => LET cutoff == HostNow - 7 * 24 * TicksPerHour
          IN  /\ \A id \in DOMAIN news_queue' :
                   ~(/\ news_queue'[id].status = "published"
                     /\ news_queue'[id].published_at < cutoff)
              /\ \A id \in DOMAIN news_queue :
                   (\/ news_queue[id].status \in {"pending", "failed"}
                    \/ news_queue[id].published_at >= cutoff)
                   => /\ id \in DOMAIN news_queue'
                      /\ news_queue'[id] = news_queue[id]]_vars

\* a sweep has deleted the record published eight days ago and left the record
\* that has been pending for as long
C19_Witness ==
    /\ Hour(HostNow) = CLEANUP_HOUR
    /\ Cardinality(DOMAIN news_queue) < nextId - 1
    /\ \E id \in Pending(news_queue) :
         news_queue[id].scheduled_time < HostNow - 7 * 24 * TicksPerHour

\* C21: an operator rewrite of a record changes nothing but that record's
\* processed_text (status, scheduled_time, is_urgent, url, published_at and every
\* other record stay as they were, no record appears or disappears), only the
\* update step writes, and a rewrite whose text generation fails leaves the
\* store as it was and ends.
C21_RewriteFrame ==
    /\ [][pub[OpFlow].pc \in RewritePcs /\ pub'[OpFlow] # pub[OpFlow] =>
            /\ DOMAIN news_queue' = DOMAIN news_queue
            /\ \A i \in DOMAIN news_queue :
                 IF i = pub[OpFlow].id
                 THEN [news_queue'[i] EXCEPT !.processed_text = ""] =
                      [news_queue[i] EXCEPT !.processed_text = ""]
                 ELSE news_queue'[i] = news_queue[i]
            /\ pub[OpFlow].pc # "rw_update" => news_queue' = news_queue]_vars
    /\ [][pub[OpFlow].pc = "rw_generate" /\ pub'[OpFlow].pc # "rw_update"
            /\ pub'[OpFlow] # pub[OpFlow] =>
            news_queue' = news_queue /\ pub'[OpFlow] = IdlePub]_vars
    /\ [][RewriteUpdate /\ pub[OpFlow].id \in DOMAIN news_queue =>
            news_queue'[pub[OpFlow].id].processed_text = RewrittenText]_vars

\* a published urgent record was rewritten and kept its status
C21_Witness ==
    \E id \in DOMAIN news_queue :
        /\ news_queue[id].processed_text = RewrittenText
        /\ news_queue[id].status = "published"
        /\ news_queue[id].is_urgent
        /\ pub[OpFlow].pc = "idle"

\* the URLs of the long messages that lie beyond the cap
BeyondCap ==
    UNION {{batch[i] : i \in (MAX_ARTICLES_PER_RUN + 1)..Len(batch)} :
           batch \in LongBatches}

\* C22: of the URLs of one message only the first MAX_ARTICLES_PER_RUN are
\* taken, in message order, and they are worked off front to back; a URL beyond
\* the cap is never fetched or enqueued, in this batch or a later one.
C22_OnlyFirstUrls ==
    /\ [][\A w \in MainWorkers :
            worker[w].pc = "idle" /\ worker'[w].pc # "idle" =>
              \E batch \in LongBatches :
                /\ Len(worker'[w].urls) =
                     (IF Len(batch) < MAX_ARTICLES_PER_RUN
                      THEN Len(batch) ELSE MAX_ARTICLES_PER_RUN)
                /\ \A i \in 1..Len(worker'[w].urls) : worker'[w].urls[i] = batch[i]]_vars
    /\ [][\A w \in MainWorkers :
            worker[w].pc # "idle" /\ worker'[w].urls # worker[w].urls =>
              worker'[w].urls = IF Len(worker[w].urls) > 1
                                THEN Tail(worker[w].urls) ELSE <<>>]_vars
    /\ [](\A url \in BeyondCap :
            /\ \A w \in Workers : url \notin Range(worker[w].urls)
            /\ ~UrlExists(news_queue, url))

\* the first five URLs of the six-URL message are enqueued in message order and
\* the ingestion has returned
C22_Witness ==
    /\ \A i \in 1..MAX_ARTICLES_PER_RUN :
         i \in DOMAIN news_queue /\ news_queue[i].url = AllocUrls[i]
    /\ \A w \in MainWorkers : worker[w].pc = "idle"

\* C23: inside one batch no failure (fetch, validation, rewrite, store, send or
\* any exception) aborts the loop: whenever the ingestion leaves a URL it goes on
\* with the next URL of the batch, it returns only after the last one, and it
\* always returns.
C23_BatchSurvivesFailures ==
    /\ [][\A w \in MainWorkers :
            worker[w].pc # "idle" /\ worker'[w].urls # worker[w].urls =>
              IF Len(worker[w].urls) > 1
              THEN /\ worker'[w].pc = "prepare"
                   /\ worker'[w].urls = Tail(worker[w].urls)
              ELSE worker'[w] = IdleWorker]_vars
    /\ [][\A w \in MainWorkers :
            worker[w].pc # "idle" /\ worker'[w].pc = "idle" =>
              Len(worker[w].urls) = 1]_vars
    /\ \A w \in MainWorkers : (worker[w].pc # "idle") ~> (worker[w].pc = "idle")

\* the send of the first URL failed and the ingestion is at the second URL
C23_Witness ==
    \E w \in MainWorkers :
        /\ worker[w].pc = "prepare"
        /\ worker[w].urls = <<"a">>
        /\ \E id \in DOMAIN news_queue :
             /\ news_queue[id].url = "u"
             /\ news_queue[id].status = "failed"
             /\ sent[id] = 0

\* the configured hours as a set, and the k-th smallest of them (k from 0)
HourSet == {PUBLISH_SCHEDULE[i] : i \in 1..Len(PUBLISH_SCHEDULE)}
KthSmallest(k) == CHOOSE h \in HourSet : Cardinality({g \in HourSet : g < h}) = k

\* C24: get_specific_slot(date, slot_index) answers the date at the
\* slot_index-th smallest configured hour when 0 <= slot_index < number of
\* hours, and None for every other slot_index, negative ones included.
C24_SpecificSlot ==
    [][\A date \in SlotDates, slot_index \in SlotIndexes :
         call_get_specific_slot(date, slot_index) =>
           reply'.value = IF 0 <= slot_index /\ slot_index < Len(PUBLISH_SCHEDULE)
                          THEN Combine(date, KthSmallest(slot_index))
                          ELSE NoTime]_vars

\* the slot instants of today and tomorrow
NearSlotInstants ==
    {Combine(d, h) : d \in {Date(now), Date(now) + 1}, h \in HourSet}

\* C25: get_next_publication_time answers the smallest configured slot instant
\* strictly later than now (the earliest remaining hour of today, else the
\* smallest hour of tomorrow), whatever the store holds.
C25_NextPublicationTime ==
    [][call_get_next_publication_time =>
         /\ reply'.value \in NearSlotInstants
         /\ reply'.value > now
         /\ \A t \in NearSlotInstants : t > now => reply'.value <= t
         /\ reply'.value =
              IF \E h \in HourSet : Combine(Date(now), h) > now
              THEN Min({Combine(Date(now), h) : h \in {g \in HourSet :
                                                   Combine(Date(now), g) > now}})
              ELSE Combine(Date(now) + 1, Min(HourSet))]_vars

\* asked exactly on a slot instant that a pending record occupies, the answer
\* is the following slot, which a pending record occupies too
C25_Witness ==
    /\ reply.op = "get_next_publication_time"
    /\ IsSlotInstant(now)
    /\ reply.value > now
    /\ PendingAt(news_queue, reply.value) # {}

\* C26: the candidate list of a non-urgent article ascends strictly, without a
\* repeated instant: today's configured hours later than the current hour, then
\* every configured hour of the next HorizonDays days; no candidate lies in the
\* current hour or earlier, so an assigned slot is later than its assignment.
C26_CandidatesStrictlyIncrease ==
    /\ [](LET slots == available_slots(now, get_publish_hours)
          IN  /\ \A i, j \in 1..Len(slots) : i < j => slots[i] < slots[j]
              /\ \A i \in 1..Len(slots) : slots[i] >= Combine(Date(now), Hour(now) + 1)
              /\ Range(slots) =
                   {Combine(Date(now), h) : h \in {g \in HourSet : g > Hour(now)}}
                   \cup {Combine(Date(now) + d, h) : d \in 1..HorizonDays, h \in HourSet})
    /\ [][\A w \in MainWorkers :
            worker[w].pc = "prepare" /\ worker'[w].pc = "add" /\ ~worker'[w].is_urgent =>
              worker'[w].scheduled_time > now]_vars

\* C27: once the bot runs, the hours with a registered dispatcher trigger are
\* the configured publication hours, after startup and after every runtime
\* change of the hours; so every pending non-urgent record has a trigger at the
\* hour of its slot.
C27_TriggersMatchSchedule ==
    /\ [](Running => jobHours = HourSet)
    /\ [](Running =>
            \A id \in Pending(news_queue) :
                ~news_queue[id].is_urgent =>
                    Hour(news_queue[id].scheduled_time) \in jobHours)

\* C28: the allocator, the due check and the published_at stamp read one civil
\* clock: whatever the host's timezone, a pending record is due for the store
\* exactly when the civil time has reached its slot instant, a record is stamped
\* with the civil time of its publication, and the occupancy count finds a
\* pending record at exactly the instant it was stored with.
C28_OneCivilClock ==
    /\ [](\A id \in Pending(news_queue) :
            IsDue(news_queue, id, HostNow) <=> news_queue[id].scheduled_time <= now)
    /\ [][\A id \in DOMAIN news_queue :
            id \in DOMAIN news_queue'
            /\ news_queue'[id].published_at # news_queue[id].published_at =>
                news_queue'[id].published_at = now]_vars
    /\ [](\A id \in Pending(news_queue) :
            get_next_slot_news_count(news_queue, news_queue[id].scheduled_time) > 0)

C30_CheckThenInsert ==
    /\ [][\A w \in Workers :
            worker[w].pc = "prepare" /\ worker'[w].pc = "add" =>
              news_queue' = news_queue]_vars
    /\ [][\A w \in Workers :
            worker[w].pc = "add" /\ worker'[w].pc # "add"
            /\ DOMAIN news_queue' # DOMAIN news_queue =>
              \A id \in DOMAIN news_queue' \ DOMAIN news_queue :
                  news_queue'[id].scheduled_time = worker[w].scheduled_time]_vars

\* both articles are pending at one slot instant, neither was assigned with a
\* full horizon, and a candidate slot is free
C30_Witness ==
    \E a, b \in DOMAIN news_queue :
        /\ a # b
        /\ a \in Pending(news_queue) /\ b \in Pending(news_queue)
        /\ ~news_queue[a].is_urgent /\ ~news_queue[b].is_urgent
        /\ news_queue[a].scheduled_time = news_queue[b].scheduled_time
        /\ ~news_queue[a].horizon_full /\ ~news_queue[b].horizon_full
        /\ ~AllOccupied(news_queue, available_slots(now, get_publish_hours))

\* C31: a record that is not urgent is sent before its scheduled_time only by
\* the operator's publish-by-id: never by a dispatcher tick and never by the
\* ingestion that enqueued it.
C31_NoEarlySend ==
    [][\A f \in Flows :
         /\ pub[f].pc = "send" /\ pub'[f].pc = "mark"
         /\ pub[f].id \in DOMAIN news_queue
         /\ ~news_queue[pub[f].id].is_urgent
         /\ news_queue[pub[f].id].scheduled_time > now
         => f = OpFlow]_vars

\* C32: an article whose fetch, validation or rewrite fails is neither inserted
\* nor sent; an article whose send fails after its insert is, when the publish
\* attempt returns, still in the store and has status failed.
C32_FailureOutcomes ==
    /\ [][\A w \in MainWorkers :
            worker[w].pc = "prepare" /\ worker'[w].pc # "add"
            /\ worker'[w] # worker[w] =>
              news_queue' = news_queue /\ sent' = sent /\ pub' = pub]_vars
    /\ [][\A f \in Flows :
            /\ pub[f].pc = "fail" /\ pub[f].tried /\ pub'[f].pc = "idle"
            /\ pub[f].id \in DOMAIN news_queue
            => /\ pub[f].id \in DOMAIN news_queue'
               /\ news_queue'[pub[f].id].status = "failed"]_vars

\* C33: an operator publish-by-id on a failed record sends it at most once per
\* attempt; when the send went through the record is published as the attempt
\* returns, when it did not the record is failed; an attempt on an id that is
\* not in the store sends nothing and changes no record.
C33_RepublishFailed ==
    /\ [][pub[OpFlow].pc = "send" => ~pub[OpFlow].tried]_vars
    /\ [][/\ pub[OpFlow].pc = "mark" /\ pub'[OpFlow].pc = "idle"
          /\ pub[OpFlow].id \in DOMAIN news_queue
          /\ news_queue[pub[OpFlow].id].status = "failed"
          => /\ pub[OpFlow].id \in DOMAIN news_queue'
             /\ news_queue'[pub[OpFlow].id].status = "published"]_vars
    /\ [][/\ pub[OpFlow].pc = "fail" /\ pub'[OpFlow].pc = "idle"
          /\ pub[OpFlow].id \in DOMAIN news_queue
          /\ news_queue[pub[OpFlow].id].status = "failed"
          => /\ pub[OpFlow].id \in DOMAIN news_queue'
             /\ news_queue'[pub[OpFlow].id].status = "failed"]_vars
    /\ [][/\ pub[OpFlow].pc = "read" /\ pub'[OpFlow] # pub[OpFlow]
          /\ pub[OpFlow].id \notin DOMAIN news_queue
          /\ pub'[OpFlow].pc # "fail"
          => news_queue' = news_queue /\ sent' = sent /\ pub'[OpFlow] = IdlePub]_vars

\* the in-memory value of a key and its row agree, or the key has no row
SameValue(key) ==
    \/ config_table[key] = NoValue
    \/ key = "URGENT_KEYWORDS" /\ config_table[key] = URGENT_KEYWORDS
    \/ key = "CHECK_INTERVAL" /\ ~IntRaises(config_table[key])
                              /\ int(config_table[key]) = CHECK_INTERVAL
    \/ key = "TEXT_LENGTH"

\* C34: update_config writes the store first and applies the value in memory
\* only after a successful write: a failed write returns False and leaves the
\* in-memory values unchanged, a True return for a recognized key leaves memory
\* equal to the store, and whenever a call has ended memory and store hold the
\* same value for its key.
C34_WriteThrough ==
    /\ [][reply'.op = "update_config" /\ opCount' # opCount
          /\ reply'.value = "False" =>
            UNCHANGED <<URGENT_KEYWORDS, CHECK_INTERVAL, config_table>>]_vars
    /\ [][reply'.op = "update_config" /\ opCount' # opCount =>
            SameValue(reply.key)']_vars

\* kw occurs in text at some offset, letters compared without their case
Occurs(kw, text) ==
    \E i \in 0..(Len(text) - Len(kw)) :
        \A j \in 1..Len(kw) : lower_char(text[i + j]) = lower_char(kw[j])

\* the keywords of the configured comma-separated list
ConfiguredKeywords ==
    LET parts == split(URGENT_KEYWORDS, ",")
    IN  {strip(parts[i]) : i \in 1..Len(parts)}

\* C35: an article is classified urgent exactly when one of the currently
\* configured keywords occurs, case-insensitively, as a substring of its title
\* followed by its body, and the stored record carries that classification.
C35_UrgentIffKeyword ==
    /\ [][\A w \in MainWorkers :
            worker[w].pc = "prepare" /\ worker'[w].pc = "add" =>
              (worker'[w].is_urgent <=>
                 \E kw \in ConfiguredKeywords :
                     Occurs(kw, ArticleText(Head(worker[w].urls))))]_vars
    /\ [][\A w \in MainWorkers :
            worker[w].pc = "add" /\ nextId \in DOMAIN news_queue' =>
              news_queue'[nextId].is_urgent = worker[w].is_urgent]_vars

C35_Witness ==
    \E w \in MainWorkers :
        /\ worker[w].pc = "add"
        /\ Head(worker[w].urls) = "k2"
        /\ URGENT_KEYWORDS = <<"A", "B">>
        /\ worker[w].is_urgent

\* the flows inside a store operation
InStoreOperation == {f \in Flows : pub[f].pc = "with"}

\* C36: a pooled connection is checked out exactly while its flow is inside one
\* store operation and is returned on commit and on rollback; no flow holds one
\* during an external call, so flows blocked in external calls never keep an
\* idle flow from obtaining a connection.
C36_ConnectionScopedToOperation ==
    /\ connection_pool = InStoreOperation
    /\ \A f \in Flows : pub[f].pc = "external" => f \notin connection_pool
    /\ \A g \in Flows :
         pub[g].pc = "idle" /\ Cardinality(InStoreOperation) < MaxConn =>
           ENABLED getconn(g)

C36_Witness ==
    \E f, g \in Flows :
        /\ pub[f].pc = "external"
        /\ pub[g].pc = "with"
        /\ g \in connection_pool
        /\ reply.op = "_get_connection"
        /\ reply.value = "rollback"

\* the columns of a record that a status transition leaves alone
SameArticle(r1, r2) ==
    /\ r1.url = r2.url
    /\ r1.scheduled_time = r2.scheduled_time
    /\ r1.is_urgent = r2.is_urgent

\* q2 differs from q1 at most in the record id, and there not in its article
OnlyTouches(q1, q2, id) ==
    /\ DOMAIN q2 = DOMAIN q1
    /\ \A i \in DOMAIN q1 : i # id => q2[i] = q1[i]
    /\ \A i \in DOMAIN q1 : SameArticle(q1[i], q2[i])

\* C37: mark_as_published and mark_as_failed are idempotent on the status and
\* touch only the addressed record: a second application leaves every status as
\* the first did, no other record and no url, scheduled_time or is_urgent
\* changes, and a call for an id that is not in the store changes nothing.
C37_MarksIdempotent ==
    /\ \A id \in Ids :
         LET p1 == mark_as_published(news_queue, id, HostNow)
             p2 == mark_as_published(p1, id, HostNow + 1)
             f1 == mark_as_failed(news_queue, id)
             f2 == mark_as_failed(f1, id)
         IN  /\ OnlyTouches(news_queue, p1, id) /\ OnlyTouches(p1, p2, id)
             /\ OnlyTouches(news_queue, f1, id) /\ OnlyTouches(f1, f2, id)
             /\ \A i \in DOMAIN news_queue :
                    p2[i].status = p1[i].status /\ f2[i].status = f1[i].status
             /\ id \in DOMAIN news_queue =>
                    p1[id].status = "published" /\ f1[id].status = "failed"
             /\ id \notin DOMAIN news_queue => p1 = news_queue /\ f1 = news_queue

C37_Witness ==
    \E id \in DOMAIN news_queue, f \in Flows :
        /\ news_queue[id].status = "published"
        /\ marks[id] >= 1
        /\ pub[f].pc = "mark"
        /\ pub[f].id = id

\* C38: once delete_news or clear_queue has removed a record it is never sent
\* to the channel, whatever dispatcher tick or publish-by-id runs concurrently,
\* and its id never comes back into the store.
C38_DeletedNeverSent ==
    /\ [][\A f \in Flows :
            pub[f].pc = "send" /\ pub'[f].pc = "mark" =>
              pub[f].id \in DOMAIN news_queue]_vars
    /\ [][\A id \in Ids :
            id \in DOMAIN news_queue' /\ id \notin DOMAIN news_queue =>
              id = nextId /\ nextId' = nextId + 1]_vars

C40_OneOffStyle ==
    /\ [][pub[OpFlow].pc = "rw_request" /\ pub'[OpFlow].pc # "rw_request" =>
            deepseek'.style = ARTICLE_STYLE]_vars
    /\ [][\A w \in MainWorkers :
            worker[w].pc = "prepare" /\ worker'[w].pc = "add" =>
              deepseek'.prompt_style = ARTICLE_STYLE]_vars

====
